---- MODULE Spec2Model ----
(***************************************************************************)
(* Model of the sanity-io/codegen type generation pipeline:                *)
(*   - structural fingerprinting of TypeNodes (typeNodeFingerprint.ts)     *)
(*   - occurrence collection and the deduplication registry                *)
(*   - identifier sanitizing / unique identifier resolution (helpers.ts)   *)
(*   - TypeGenerator.generateTypes (typeGenerator.ts)                      *)
(* Strings are modelled as sequences of one-character strings so that      *)
(* formatting, sorting and sanitizing are computed, not assumed.           *)
(***************************************************************************)
EXTENDS Integers, Sequences, FiniteSets, TLC

VARIABLES
  fpA, fpB,            \* SpecFp: the two TypeNodes handed to fingerprintTypeNode
  fingerprintCache,    \* SpecFp: the module-level WeakMap<TypeNode, string>
  fpResA, fpResB,      \* SpecFp: results returned for fpA / fpB (<<>> = not called yet)
  regBatch,            \* SpecReg: the TypeNode[] handed to collectObjectFingerprints
  regExisting,         \* SpecReg: the existingIdentifiers argument
  regFingerprints,     \* SpecReg: the occurrence map, in insertion order
  regIdx,              \* SpecReg: next record of the for loop of buildDeduplicationRegistry
  regState,            \* SpecReg: [currentIdentifiers, extractedTypes] of the running build
  regPc,               \* SpecReg: "idle" | "start" | "build" | "done"
  options,             \* Spec: GenerateTypesOptions of the generateTypes call
  pc,                  \* Spec: position of generateTypes
  srcPos,              \* Spec: number of modules the query source has yielded so far
  srcState,            \* Spec: the query source: "open" | "completed" | "threw"
  collectedModules,    \* Spec: CollectedModule[] of collectModules
  allTypeNodes,        \* Spec: the TypeNode[] handed to collectObjectFingerprints
  currentIdentifiers,  \* Spec: the running Set<string> of reserved identifiers
  stg,                 \* Spec: the SchemaTypeGenerator instance of this run
  program,             \* Spec: program.body / code, one record per declaration
  evaluatedModules,    \* Spec: EvaluatedModule[] of generateEvaluatedModules
  events,              \* Spec: notifications pushed to the reporter, in order
  rejection,           \* Spec: the error generateTypes rejected with (NoError: none)
  mapModules,          \* SpecMap: the evaluatedModules handed to getQueryMapDeclaration
  mapOverload,         \* SpecMap: the overloadClientMethods argument
  typesByQuerystring,  \* SpecMap: the plain object grouping result identifiers by query
  mapThrew,            \* SpecMap: a TypeError was thrown inside the grouping loop
  mapIdx,              \* SpecMap: next query of the grouping loop
  mapPc,               \* SpecMap: "idle" | "start" | "group" | "done" | "threw"
  mapResult,           \* SpecMap: the property signatures of the returned interface
  memoize,             \* SpecMemo: the memoizer createSelector was built with
  memoHeap,            \* SpecMemo: number of objects allocated by the selectors so far
  schemaTypeGeneratorCache,     \* SpecMemo: cache of getSchemaTypeGenerator
  schemaTypeDeclarationsCache,  \* SpecMemo: cache of getSchemaTypeDeclarations
  memoCalls,           \* SpecMemo: per generateTypes call, its options and the table reported
  lowSchema,           \* SpecLower: the schema the generator was built from
  lowTypeNodes,        \* SpecLower: the TypeNodes of the collected queries
  lowRegistry,         \* SpecLower: the registry installed in the generator
  lowProgram,          \* SpecLower: the lowered declarations (extracted types, then queries)
  lowPc,               \* SpecLower: "idle" | "registry" | "lower" | "done"
  idIdentifiers,       \* SpecId: the Set<string> of identifiers reserved so far
  idCalls,             \* SpecId: per getUniqueIdentifierForName call, its name and result
  singName,            \* SpecSing: the word handed to singularize
  singResult,          \* SpecSing: what singularize returned
  singPc,              \* SpecSing: "idle" | "call" | "returned"
  runState,            \* SpecRun: the WatchState {isGenerating, pendingGeneration}
  runActivations,      \* SpecRun: per started onGenerate: "awaiting" | "fulfilled" |
                       \*          "rejected" (settled, finally not run yet) | "returned"
  runCalls,            \* SpecRun: number of runGeneration calls made from outside
  runStarted,          \* SpecRun: number of onGenerate invocations started
  runQueued,           \* SpecRun: outside calls made since the last start that found
                       \*          the runner generating
  runFinished,         \* SpecRun: number of finally blocks that have run
  runPromises,         \* SpecRun: per started generation, the promise of the
                       \*          runGeneration call that started it
  statNode,            \* SpecStats: the inferred TypeNode of a query
  statResult,          \* SpecStats: the {allTypes, unknownTypes, emptyUnions} returned
  statPc,              \* SpecStats: "idle" | "call" | "returned"
  colBatch,            \* SpecCollect: the TypeNode[] handed to collectObjectFingerprints
  colResult,           \* SpecCollect: the result Map, in insertion order
  colIdx,              \* SpecCollect: number of top-level nodes walked so far
  watchStats,          \* SpecWatch: {failedCount, successfulDurations.length}
  sessGenerators,      \* SpecSession: the memoized SchemaTypeGenerator per schema value
  sessCalls            \* SpecSession: per generateTypes call, its options and its output

fpVars == <<fpA, fpB, fingerprintCache, fpResA, fpResB>>
regVars == <<regBatch, regExisting, regFingerprints, regIdx, regState, regPc>>

genVars == <<options, pc, srcPos, srcState, collectedModules, allTypeNodes, currentIdentifiers,
             stg, program, evaluatedModules, events, rejection>>

mapVars == <<mapModules, mapOverload, typesByQuerystring, mapThrew, mapIdx, mapPc, mapResult>>

\* the state of the specifications other than SpecFp, SpecReg and Spec
memoVars == <<memoize, memoHeap, schemaTypeGeneratorCache, schemaTypeDeclarationsCache,
              memoCalls>>

lowVars == <<lowSchema, lowTypeNodes, lowRegistry, lowProgram, lowPc>>

idVars == <<idIdentifiers, idCalls>>

singVars == <<singName, singResult, singPc>>

runVars == <<runState, runActivations, runCalls, runStarted, runQueued, runFinished,
             runPromises>>

statVars == <<statNode, statResult, statPc>>

colVars == <<colBatch, colResult, colIdx>>

watchVars == <<watchStats>>

sessVars == <<sessGenerators, sessCalls>>

lateVars == <<colVars, watchVars, sessVars>>

moreVars == <<lowVars, idVars, singVars, runVars, statVars, lateVars>>

extVars == <<mapVars, memoVars, moreVars>>

vars == <<fpVars, regVars, genVars, extVars>>

(***************************************************************************)
(* Characters and strings                                                  *)
(***************************************************************************)
Digits == <<"0", "1", "2", "3", "4", "5", "6", "7", "8", "9">>

LowerLetters == <<"a", "b", "c", "d", "e", "f", "g", "h", "i", "j", "k", "l", "m",
                  "n", "o", "p", "q", "r", "s", "t", "u", "v", "w", "x", "y", "z">>

UpperLetters == <<"A", "B", "C", "D", "E", "F", "G", "H", "I", "J", "K", "L", "M",
                  "N", "O", "P", "Q", "R", "S", "T", "U", "V", "W", "X", "Y", "Z">>

Range(s) == {s[i] : i \in DOMAIN s}

IndexOf(c, s) == CHOOSE i \in DOMAIN s : s[i] = c

IsDigit(c) == c \in Range(Digits)
IsLower(c) == c \in Range(LowerLetters)
IsUpper(c) == c \in Range(UpperLetters)

\* UTF-16 code unit of a character (the order used by Array.prototype.toSorted)
CodeOf(c) ==
  IF IsDigit(c) THEN 47 + IndexOf(c, Digits)
  ELSE IF IsUpper(c) THEN 64 + IndexOf(c, UpperLetters)
  ELSE IF IsLower(c) THEN 96 + IndexOf(c, LowerLetters)
  ELSE CASE c = " " -> 32
         [] c = "\"" -> 34
         [] c = "$" -> 36
         [] c = "(" -> 40
         [] c = ")" -> 41
         [] c = "," -> 44
         [] c = "-" -> 45
         [] c = "." -> 46
         [] c = ":" -> 58
         [] c = ">" -> 62
         [] c = "?" -> 63
         [] c = "@" -> 64
         [] c = "[" -> 91
         [] c = "\\" -> 92
         [] c = "]" -> 93
         [] c = "_" -> 95
         [] c = "{" -> 123
         [] c = "|" -> 124
         [] c = "}" -> 125

\* String.prototype.toUpperCase on one character
ToUpperCase(c) == IF IsLower(c) THEN UpperLetters[IndexOf(c, LowerLetters)] ELSE c

\* s < t in code unit order
RECURSIVE StrLess(_, _)
StrLess(s, t) ==
  IF t = <<>> THEN FALSE
  ELSE IF s = <<>> THEN TRUE
  ELSE IF CodeOf(Head(s)) # CodeOf(Head(t)) THEN CodeOf(Head(s)) < CodeOf(Head(t))
  ELSE StrLess(Tail(s), Tail(t))

RECURSIVE InsertSorted(_, _)
InsertSorted(x, sorted) ==
  IF sorted = <<>> THEN <<x>>
  ELSE IF StrLess(x, Head(sorted)) THEN <<x>> \o sorted
  ELSE <<Head(sorted)>> \o InsertSorted(x, Tail(sorted))

\* Array.prototype.toSorted() with the default comparator, on an array of strings
RECURSIVE toSorted(_)
toSorted(strs) ==
  IF strs = <<>> THEN <<>> ELSE InsertSorted(Head(strs), toSorted(Tail(strs)))

\* Array.prototype.join(sep)
RECURSIVE join(_, _)
join(strs, sep) ==
  IF strs = <<>> THEN <<>>
  ELSE IF Len(strs) = 1 THEN strs[1]
  ELSE strs[1] \o sep \o join(Tail(strs), sep)

\* template-literal conversion of a non-negative integer
RECURSIVE NumToStr(_)
NumToStr(n) ==
  IF n < 10 THEN <<Digits[n + 1]>>
  ELSE NumToStr(n \div 10) \o <<Digits[(n % 10) + 1]>>

\* JSON.stringify of a string: quoted, with quote and backslash escaped
RECURSIVE JsonEscape(_)
JsonEscape(s) ==
  IF s = <<>> THEN <<>>
  ELSE (IF Head(s) \in {"\"", "\\"} THEN <<"\\", Head(s)>> ELSE <<Head(s)>>)
       \o JsonEscape(Tail(s))

JsonStringify(s) == <<"\"">> \o JsonEscape(s) \o <<"\"">>

(***************************************************************************)
(* TypeNode (groq-js).  The union's member list is kept in the field       *)
(* `members` (source: `of`) so that it never shares a field with the array *)
(* node's element type.  An absent rest is NoNode, an absent or empty      *)
(* dereferencesTo is <<>> (both are falsy in the source).                  *)
(***************************************************************************)
NoNode == [type |-> "none"]
UnknownNode == [type |-> "unknown"]
NullNode == [type |-> "null"]
BoolNode == [type |-> "boolean", hasValue |-> FALSE, bval |-> FALSE]
BoolLit(v) == [type |-> "boolean", hasValue |-> TRUE, bval |-> v]
NumNode == [type |-> "number", hasValue |-> FALSE, nval |-> 0]
NumLit(v) == [type |-> "number", hasValue |-> TRUE, nval |-> v]
StrNode == [type |-> "string", hasValue |-> FALSE, sval |-> <<>>]
StrLit(v) == [type |-> "string", hasValue |-> TRUE, sval |-> v]
InlineNode(name) == [type |-> "inline", name |-> name]
ArrayNode(of) == [type |-> "array", of |-> of]
UnionNode(members) == [type |-> "union", members |-> members]
Attr(key, optional, value) == [key |-> key, optional |-> optional, value |-> value]
ObjectNode(attributes, rest, dereferencesTo) ==
  [type |-> "object", attributes |-> attributes, rest |-> rest,
   dereferencesTo |-> dereferencesTo]
Obj(attributes) == ObjectNode(attributes, NoNode, <<>>)

(***************************************************************************)
(* typeNodeFingerprint.ts: computeFingerprint / fingerprintObjectTypeNode  *)
(***************************************************************************)
\* variant of the union arm that joins the members in their given order
UnionFingerprintUnsorted(memberFps) == <<"(">> \o join(memberFps, <<"|">>) \o <<")">>

UnionFingerprint(memberFps) == <<"(">> \o join(toSorted(memberFps), <<"|">>) \o <<")">>

RECURSIVE computeFingerprint(_)
fingerprintObjectTypeNode(typeNode) ==
  LET entries == toSorted(
        [i \in DOMAIN typeNode.attributes |->
           LET attr == typeNode.attributes[i]
               optMarker == IF attr.optional THEN <<"?">> ELSE <<>>
           IN  attr.key \o optMarker \o <<":">> \o computeFingerprint(attr.value)])
      rest == IF typeNode.rest # NoNode
              THEN <<"@", "r", "e", "s", "t">> \o computeFingerprint(typeNode.rest)
              ELSE <<>>
      deref == IF typeNode.dereferencesTo # <<>>
               THEN <<"-", ">", ">">> \o typeNode.dereferencesTo
               ELSE <<>>
  IN  <<"{">> \o join(entries, <<",">>) \o rest \o deref \o <<"}">>

computeFingerprint(typeNode) ==
  CASE typeNode.type = "array" -> <<"[">> \o computeFingerprint(typeNode.of) \o <<"]">>
    [] typeNode.type = "boolean" ->
         IF ~typeNode.hasValue THEN <<"b">>
         ELSE <<"b", ":">> \o (IF typeNode.bval THEN <<"t", "r", "u", "e">>
                                               ELSE <<"f", "a", "l", "s", "e">>)
    [] typeNode.type = "inline" -> <<"@">> \o typeNode.name
    [] typeNode.type = "null" -> <<"n", "u", "l", "l">>
    [] typeNode.type = "number" ->
         IF ~typeNode.hasValue THEN <<"n">> ELSE <<"n", ":">> \o NumToStr(typeNode.nval)
    [] typeNode.type = "object" -> fingerprintObjectTypeNode(typeNode)
    [] typeNode.type = "string" ->
         IF ~typeNode.hasValue THEN <<"s">> ELSE <<"s", ":">> \o JsonStringify(typeNode.sval)
    [] typeNode.type = "union" ->
         UnionFingerprint([i \in DOMAIN typeNode.members |->
                             computeFingerprint(typeNode.members[i])])
    [] typeNode.type = "unknown" -> <<"?">>
    [] OTHER -> <<"u", "n", "k", "n", "o", "w", "n", ":">>

\* every node reached by the recursive fingerprintTypeNode calls for typeNode
RECURSIVE SubNodes(_)
SubNodes(typeNode) ==
  {typeNode} \cup
  CASE typeNode.type = "array" -> SubNodes(typeNode.of)
    [] typeNode.type = "union" ->
         UNION {SubNodes(typeNode.members[i]) : i \in DOMAIN typeNode.members}
    [] typeNode.type = "object" ->
         UNION {SubNodes(typeNode.attributes[i].value) : i \in DOMAIN typeNode.attributes}
         \cup (IF typeNode.rest # NoNode THEN SubNodes(typeNode.rest) ELSE {})
    [] OTHER -> {}

\* fingerprintTypeNode: return the cached string or compute and cache it
fingerprintTypeNode(cache, typeNode) ==
  IF typeNode \in DOMAIN cache THEN cache[typeNode] ELSE computeFingerprint(typeNode)

CacheAfter(cache, typeNode) ==
  IF typeNode \in DOMAIN cache THEN cache
  ELSE [n \in DOMAIN cache \cup SubNodes(typeNode) |->
          IF n \in DOMAIN cache THEN cache[n] ELSE computeFingerprint(n)]

(***************************************************************************)
(* helpers.ts: identifier sanitizing and unique identifier resolution      *)
(***************************************************************************)
\* the regular expression class [$\w]
IsWordChar(c) == IsDigit(c) \/ IsLower(c) \/ IsUpper(c) \/ c = "_" \/ c = "$"

\* length of the maximal run of characters outside [$\w] at the start of s
RECURSIVE SeparatorRun(_)
SeparatorRun(s) ==
  IF s = <<>> \/ IsWordChar(Head(s)) THEN 0 ELSE 1 + SeparatorRun(Tail(s))

\* input.replaceAll(/[^$\w]+(.)/g, (_, char) => char.toUpperCase()): a greedy run
\* of separators and the character after it become that character upper-cased;
\* a run that reaches the end of the input gives back its last character to (.),
\* and a single trailing separator does not match at all.
RECURSIVE ReplaceSeparatorRuns(_)
ReplaceSeparatorRuns(s) ==
  IF s = <<>> THEN <<>>
  ELSE LET k == SeparatorRun(s) IN
       IF k = 0 THEN <<Head(s)>> \o ReplaceSeparatorRuns(Tail(s))
       ELSE IF k < Len(s)
            THEN <<ToUpperCase(s[k + 1])>> \o ReplaceSeparatorRuns(SubSeq(s, k + 2, Len(s)))
       ELSE IF k >= 2 THEN <<ToUpperCase(s[k])>>
       ELSE s

sanitizeIdentifier(input) ==
  ReplaceSeparatorRuns(IF input # <<>> /\ IsDigit(Head(input))
                       THEN <<"_">> \o Tail(input) ELSE input)

normalizeIdentifier(input) ==
  LET sanitized == sanitizeIdentifier(input) IN
  IF sanitized = <<>> THEN <<>> ELSE <<ToUpperCase(Head(sanitized))>> \o Tail(sanitized)

\* isIdentifierName: /^[a-zA-Z_$][a-zA-Z0-9_$]*$/
isIdentifierName(input) ==
  /\ input # <<>>
  /\ ~IsDigit(Head(input))
  /\ \A i \in DOMAIN input : IsWordChar(input[i])

ARRAY_OF == <<"A", "r", "r", "a", "y", "O", "f">>
ALL_SANITY_SCHEMA_TYPES ==
  <<"A", "l", "l", "S", "a", "n", "i", "t", "y", "S", "c", "h", "e", "m", "a",
    "T", "y", "p", "e", "s">>
SANITY_QUERIES == <<"S", "a", "n", "i", "t", "y", "Q", "u", "e", "r", "i", "e", "s">>

\* constants.ts: the fixed set of names no generated identifier may take
RESERVED_IDENTIFIERS == {ARRAY_OF, ALL_SANITY_SCHEMA_TYPES, SANITY_QUERIES}

\* the while loop of getUniqueIdentifierForName, entered with index
RECURSIVE NextFreeName(_, _, _)
NextFreeName(desiredName, index, identifiers) ==
  LET resultingName == desiredName \o <<"_">> \o NumToStr(index) IN
  IF resultingName \in identifiers \/ resultingName \in RESERVED_IDENTIFIERS
  THEN NextFreeName(desiredName, index + 1, identifiers)
  ELSE resultingName

\* variant that only looks at the identifiers in use
getUniqueIdentifierIgnoringReserved(name, identifiers) ==
  LET desiredName == normalizeIdentifier(name) IN
  IF desiredName \in identifiers
  THEN NextFreeName(desiredName, 2, identifiers)
  ELSE desiredName

getUniqueIdentifierForName(name, identifiers) ==
  LET desiredName == normalizeIdentifier(name) IN
  IF desiredName \in identifiers \/ desiredName \in RESERVED_IDENTIFIERS
  THEN NextFreeName(desiredName, 2, identifiers)
  ELSE desiredName

(***************************************************************************)
(* utils/singularize.ts                                                    *)
(***************************************************************************)
endsWith(s, suffix) ==
  /\ Len(suffix) <= Len(s)
  /\ SubSeq(s, Len(s) - Len(suffix) + 1, Len(s)) = suffix

\* name.slice(0, -n)
DropLast(s, n) == SubSeq(s, 1, Len(s) - n)

\* variant that also takes the last s of a word in -ss
EndsWithS(name) == endsWith(name, <<"s">>) /\ Len(name) > 2

\* name.endsWith('s') && !name.endsWith('ss') && name.length > 2
EndsWithSingleS(name) ==
  endsWith(name, <<"s">>) /\ ~endsWith(name, <<"s", "s">>) /\ Len(name) > 2

\* the earlier variant of singularize: no rule for doubled-z plurals, 'zes'
\* among the sibilant endings
singularizeEarlier(name) ==
  IF endsWith(name, <<"i", "e", "s">>) /\ Len(name) > 3
    THEN DropLast(name, 3) \o <<"y">>
  ELSE IF \/ endsWith(name, <<"s", "s", "e", "s">>)
          \/ endsWith(name, <<"s", "h", "e", "s">>)
          \/ endsWith(name, <<"c", "h", "e", "s">>)
          \/ endsWith(name, <<"x", "e", "s">>)
          \/ endsWith(name, <<"z", "e", "s">>)
    THEN DropLast(name, 2)
  ELSE IF endsWith(name, <<"s">>) /\ ~endsWith(name, <<"s", "s">>) /\ Len(name) > 2
    THEN DropLast(name, 1)
  ELSE name

singularize(name) ==
  IF endsWith(name, <<"i", "e", "s">>) /\ Len(name) > 3
    THEN DropLast(name, 3) \o <<"y">>
  ELSE IF endsWith(name, <<"z", "z", "e", "s">>) /\ Len(name) > 4
    THEN DropLast(name, 3)
  ELSE IF \/ endsWith(name, <<"s", "s", "e", "s">>)
          \/ endsWith(name, <<"s", "h", "e", "s">>)
          \/ endsWith(name, <<"c", "h", "e", "s">>)
          \/ endsWith(name, <<"x", "e", "s">>)
    THEN DropLast(name, 2)
  ELSE IF EndsWithSingleS(name)
    THEN DropLast(name, 1)
  ELSE name

(***************************************************************************)
(* typeNodeFingerprint.ts: collectObjectFingerprints / walkTypeNode        *)
(* The result Map is a sequence of records in insertion order.  An absent  *)
(* (null / undefined) name is NoName.                                      *)
(***************************************************************************)
NoName == [has |-> FALSE, str |-> <<>>]
SomeName(s) == [has |-> TRUE, str |-> s]

KEY_TYPE == <<"_", "t", "y", "p", "e">>
KEY_KEY == <<"_", "k", "e", "y">>
KEY_REF == <<"_", "r", "e", "f">>

STRUCTURAL_KEYS == {KEY_KEY, KEY_REF, KEY_TYPE}

\* variant in which the parent key wins over the `_type` literal
extractCandidateNameKeyFirst(typeNode, parentKey) ==
  LET idx == {i \in DOMAIN typeNode.attributes : typeNode.attributes[i].key = KEY_TYPE} IN
  IF parentKey.has \/ idx = {} THEN parentKey
  ELSE LET typeAttr == typeNode.attributes[CHOOSE i \in idx : TRUE] IN
       IF ~typeAttr.optional /\ typeAttr.value.type = "string" /\ typeAttr.value.hasValue
       THEN SomeName(typeAttr.value.sval)
       ELSE parentKey

extractCandidateName(typeNode, parentKey) ==
  LET idx == {i \in DOMAIN typeNode.attributes : typeNode.attributes[i].key = KEY_TYPE} IN
  IF /\ idx # {}
     /\ LET typeAttr == typeNode.attributes[CHOOSE i \in idx : TRUE] IN
        /\ ~typeAttr.optional
        /\ typeAttr.value.type = "string"
        /\ typeAttr.value.hasValue
  THEN SomeName(typeNode.attributes[CHOOSE i \in idx : TRUE].value.sval)
  ELSE parentKey

\* index of the record with fingerprint fp in the result map, 0 when absent
RecordIndex(result, fp) ==
  IF \E i \in DOMAIN result : result[i].fp = fp
  THEN CHOOSE i \in DOMAIN result : result[i].fp = fp
  ELSE 0

\* variant in which a later sighting takes the record over
ReplaceBySighting(result, existing, typeNode, parentKey) ==
  [result EXCEPT ![existing] =
     [fp |-> @.fp, candidateName |-> extractCandidateName(typeNode, parentKey),
      count |-> @.count + 1, typeNode |-> typeNode]]

\* existing.count++
CountSighting(result, existing, typeNode, parentKey) ==
  [result EXCEPT ![existing].count = @ + 1]

RECURSIVE walkTypeNode(_, _, _)
RECURSIVE walkAttributes(_, _, _)
RECURSIVE walkMembers(_, _, _, _)

walkTypeNode(typeNode, result, parentKey) ==
  CASE typeNode.type = "array" ->
         walkTypeNode(typeNode.of, result,
                      IF parentKey.has /\ parentKey.str # <<>>
                      THEN SomeName(singularize(parentKey.str)) ELSE NoName)
    [] typeNode.type = "object" ->
         LET fp == computeFingerprint(typeNode)
             existing == RecordIndex(result, fp)
             counted == IF existing # 0
                        THEN CountSighting(result, existing, typeNode, parentKey)
                        ELSE Append(result,
                                    [fp |-> fp,
                                     candidateName |-> extractCandidateName(typeNode, parentKey),
                                     count |-> 1,
                                     typeNode |-> typeNode])
             walked == walkAttributes(typeNode.attributes, 1, counted)
         IN  IF typeNode.rest # NoNode THEN walkTypeNode(typeNode.rest, walked, NoName)
             ELSE walked
    [] typeNode.type = "union" -> walkMembers(typeNode.members, 1, result, parentKey)
    [] OTHER -> result

walkAttributes(attributes, i, result) ==
  IF i > Len(attributes) THEN result
  ELSE walkAttributes(attributes, i + 1,
                      walkTypeNode(attributes[i].value, result, SomeName(attributes[i].key)))

walkMembers(members, i, result, parentKey) ==
  IF i > Len(members) THEN result
  ELSE walkMembers(members, i + 1, walkTypeNode(members[i], result, parentKey), parentKey)

RECURSIVE collectFrom(_, _, _)
collectFrom(typeNodes, i, result) ==
  IF i > Len(typeNodes) THEN result
  ELSE collectFrom(typeNodes, i + 1, walkTypeNode(typeNodes[i], result, NoName))

collectObjectFingerprints(typeNodes) == collectFrom(typeNodes, 1, <<>>)

(***************************************************************************)
(* typeNodeFingerprint.ts: buildDeduplicationRegistry                      *)
(***************************************************************************)
INLINE == <<"I", "n", "l", "i", "n", "e">>

inlinePrefix(candidateName) ==
  IF ~candidateName.has \/ candidateName.str = <<>>
  THEN INLINE \o <<"T", "y", "p", "e">>
  ELSE INLINE \o <<ToUpperCase(Head(candidateName.str))>> \o Tail(candidateName.str)

MeaningfulKeys(typeNode) ==
  {i \in DOMAIN typeNode.attributes : typeNode.attributes[i].key \notin STRUCTURAL_KEYS}

\* variant that already extracts objects with a single meaningful attribute
isWorthExtractingOne(typeNode) == Cardinality(MeaningfulKeys(typeNode)) >= 1

isWorthExtracting(typeNode) == Cardinality(MeaningfulKeys(typeNode)) >= 2

\* variant of currentIdentifiers.add(id.name) that reserves nothing
ReserveNothing(identifiers, name) == identifiers

\* currentIdentifiers.add(id.name)
ReserveIdentifier(identifiers, name) == identifiers \cup {name}

\* variant that puts a new entry in front of the entries made so far
RegistryStepInFront(st, rec) ==
  IF rec.count < 2 THEN st
  ELSE IF ~isWorthExtracting(rec.typeNode) THEN st
  ELSE LET baseName == inlinePrefix(rec.candidateName)
           id == getUniqueIdentifierForName(baseName, st.currentIdentifiers)
       IN  [currentIdentifiers |-> ReserveIdentifier(st.currentIdentifiers, id),
            extractedTypes |-> <<[fp |-> rec.fp, id |-> id, typeNode |-> rec.typeNode]>>
                               \o st.extractedTypes]

\* one iteration of the for loop of buildDeduplicationRegistry over a record;
\* st = [currentIdentifiers, extractedTypes], extractedTypes in insertion order
RegistryStep(st, rec) ==
  IF rec.count < 2 THEN st
  ELSE IF ~isWorthExtracting(rec.typeNode) THEN st
  ELSE LET baseName == inlinePrefix(rec.candidateName)
           id == getUniqueIdentifierForName(baseName, st.currentIdentifiers)
       IN  [currentIdentifiers |-> ReserveIdentifier(st.currentIdentifiers, id),
            extractedTypes |-> Append(st.extractedTypes,
                                      [fp |-> rec.fp, id |-> id, typeNode |-> rec.typeNode])]

RECURSIVE RegistryFrom(_, _, _)
RegistryFrom(fingerprints, i, st) ==
  IF i > Len(fingerprints) THEN st
  ELSE RegistryFrom(fingerprints, i + 1, RegistryStep(st, fingerprints[i]))

\* returns the extractedTypes of the registry
buildDeduplicationRegistry(fingerprints, existingIdentifiers) ==
  RegistryFrom(fingerprints, 1,
               [currentIdentifiers |-> existingIdentifiers, extractedTypes |-> <<>>]).extractedTypes

(***************************************************************************)
(* Structural identity modulo attribute order and union member order       *)
(***************************************************************************)
Bijections(n) == {p \in [1..n -> 1..n] : \A i, j \in 1..n : p[i] = p[j] => i = j}

RECURSIVE SameStructure(_, _)
SameStructure(a, b) ==
  /\ a.type = b.type
  /\ CASE a.type = "array" -> SameStructure(a.of, b.of)
       [] a.type = "union" ->
            /\ Len(a.members) = Len(b.members)
            /\ \E p \in Bijections(Len(a.members)) :
                 \A i \in DOMAIN a.members : SameStructure(a.members[i], b.members[p[i]])
       [] a.type = "object" ->
            /\ Len(a.attributes) = Len(b.attributes)
            /\ \A i \in DOMAIN a.attributes : \E j \in DOMAIN b.attributes :
                 /\ a.attributes[i].key = b.attributes[j].key
                 /\ a.attributes[i].optional = b.attributes[j].optional
                 /\ SameStructure(a.attributes[i].value, b.attributes[j].value)
            /\ (a.rest = NoNode) = (b.rest = NoNode)
            /\ (a.rest # NoNode => SameStructure(a.rest, b.rest))
            /\ a.dereferencesTo = b.dereferencesTo
       [] OTHER -> a = b

(***************************************************************************)
(* SpecFp: two TypeNodes drawn from a bounded universe are fingerprinted   *)
(***************************************************************************)
MaxAttrs == 2
MaxMembers == 2

FpKeys == {<<"a">>, <<"b">>, <<"a", "?">>}

FpLeaves ==
  {UnknownNode, NullNode, BoolNode, BoolLit(TRUE), BoolLit(FALSE), NumNode, NumLit(1),
   StrNode, StrLit(<<"a">>), StrLit(<<"1">>), InlineNode(<<"a">>), InlineNode(<<"b">>)}

FpAttrSet == {Attr(k, o, StrNode) : k \in FpKeys, o \in BOOLEAN}

FpAttrSeqs ==
  UNION {{s \in [1..k -> FpAttrSet] : \A i, j \in 1..k : s[i].key = s[j].key => i = j}
         : k \in 0..MaxAttrs}

FpFlatObjects == {Obj(s) : s \in FpAttrSeqs}

FpMarkedObjects ==
  {ObjectNode(<<Attr(<<"a">>, FALSE, StrNode)>>, r, d) :
     r \in {NoNode, UnknownNode, InlineNode(<<"a">>)}, d \in {<<>>, <<"a">>, <<"b">>}}

FpFlatUnions ==
  UNION {{UnionNode(s) : s \in [1..k -> {StrNode, NumNode, NullNode}]} : k \in 0..MaxMembers}

FpAB == Obj(<<Attr(<<"a">>, FALSE, StrNode), Attr(<<"b">>, TRUE, StrNode)>>)
FpBA == Obj(<<Attr(<<"b">>, TRUE, StrNode), Attr(<<"a">>, FALSE, StrNode)>>)
FpSN == UnionNode(<<StrNode, NumNode>>)
FpNS == UnionNode(<<NumNode, StrNode>>)

FpWrapBase == {FpAB, FpBA, FpSN, FpNS}

FpWrap(x) ==
  {ArrayNode(x), Obj(<<Attr(<<"a">>, FALSE, x)>>), UnionNode(<<x, NullNode>>),
   UnionNode(<<NullNode, x>>), ObjectNode(<<>>, x, <<>>)}

FpDepth2 == UNION {FpWrap(x) : x \in FpWrapBase}

FpDepth3 ==
  {Obj(<<Attr(<<"b">>, FALSE, ArrayNode(UnionNode(<<x, NullNode>>))), Attr(<<"a">>, TRUE, y)>>)
     : x \in {FpAB, FpBA}, y \in {FpSN, FpNS}}
  \cup
  {Obj(<<Attr(<<"a">>, TRUE, y), Attr(<<"b">>, FALSE, ArrayNode(UnionNode(<<NullNode, x>>)))>>)
     : x \in {FpAB, FpBA}, y \in {FpSN, FpNS}}

FpNodes ==
  FpLeaves \cup FpFlatObjects \cup FpMarkedObjects \cup FpFlatUnions \cup FpDepth2 \cup FpDepth3

EmptyCache == [n \in {} |-> <<>>]

FpIdle ==
  /\ fpA = NoNode
  /\ fpB = NoNode
  /\ fingerprintCache = EmptyCache
  /\ fpResA = <<>>
  /\ fpResB = <<>>

EmptyRegistryState == [currentIdentifiers |-> {}, extractedTypes |-> <<>>]

RegIdle ==
  /\ regBatch = <<>>
  /\ regExisting = {}
  /\ regFingerprints = <<>>
  /\ regIdx = 0
  /\ regState = EmptyRegistryState
  /\ regPc = "idle"

NoSchemaTypeGenerator ==
  [identifiers |-> <<>>, arrayOfUsed |-> FALSE, registryInstalled |-> FALSE,
   deduplicationRegistry |-> <<>>]

NoError == [name |-> "none", detail |-> <<>>]

GenIdle ==
  /\ options = [schema |-> <<>>, hasQueries |-> FALSE, queries |-> <<>>,
                overloadClientMethods |-> TRUE, reporter |-> FALSE]
  /\ pc = "idle"
  /\ srcPos = 0
  /\ srcState = "open"
  /\ collectedModules = <<>>
  /\ allTypeNodes = <<>>
  /\ currentIdentifiers = {}
  /\ stg = NoSchemaTypeGenerator
  /\ program = <<>>
  /\ evaluatedModules = <<>>
  /\ events = <<>>
  /\ rejection = NoError

MapIdle ==
  /\ mapModules = <<>>
  /\ mapOverload = TRUE
  /\ typesByQuerystring = <<>>
  /\ mapThrew = FALSE
  /\ mapIdx = 0
  /\ mapPc = "idle"
  /\ mapResult = <<>>

MemoIdle ==
  /\ memoize = "lruMemoize"
  /\ memoHeap = 0
  /\ schemaTypeGeneratorCache = {}
  /\ schemaTypeDeclarationsCache = {}
  /\ memoCalls = <<>>

LowIdle ==
  /\ lowSchema = <<>>
  /\ lowTypeNodes = <<>>
  /\ lowRegistry = <<>>
  /\ lowProgram = <<>>
  /\ lowPc = "idle"

IdIdle ==
  /\ idIdentifiers = {}
  /\ idCalls = <<>>

SingIdle ==
  /\ singName = <<>>
  /\ singResult = <<>>
  /\ singPc = "idle"

RunIdle ==
  /\ runState = [isGenerating |-> FALSE, pendingGeneration |-> FALSE]
  /\ runActivations = <<>>
  /\ runCalls = 0
  /\ runStarted = 0
  /\ runQueued = 0
  /\ runFinished = 0
  /\ runPromises = <<>>

NoStats == [allTypes |-> 0, unknownTypes |-> 0, emptyUnions |-> 0]

StatIdle ==
  /\ statNode = NoNode
  /\ statResult = NoStats
  /\ statPc = "idle"

ColIdle ==
  /\ colBatch = <<>>
  /\ colResult = <<>>
  /\ colIdx = 0

WatchIdle == watchStats = [failedCount |-> 0, successfulCount |-> 0]

SessIdle ==
  /\ sessGenerators = {}
  /\ sessCalls = <<>>

LateIdle == ColIdle /\ WatchIdle /\ SessIdle

MoreIdle == LowIdle /\ IdIdle /\ SingIdle /\ RunIdle /\ StatIdle /\ LateIdle

ExtIdle == MapIdle /\ MemoIdle /\ MoreIdle

InitFp ==
  /\ RegIdle
  /\ GenIdle
  /\ ExtIdle
  /\ fpA \in FpNodes
  /\ fpB \in FpNodes
  /\ fingerprintCache = EmptyCache
  /\ fpResA = <<>>
  /\ fpResB = <<>>

\* a caller invokes fingerprintTypeNode(fpA)
FingerprintA ==
  /\ fpResA = <<>>
  /\ fpResA' = fingerprintTypeNode(fingerprintCache, fpA)
  /\ fingerprintCache' = CacheAfter(fingerprintCache, fpA)
  /\ UNCHANGED <<fpA, fpB, fpResB, regVars, genVars, extVars>>

\* a caller invokes fingerprintTypeNode(fpB)
FingerprintB ==
  /\ fpResB = <<>>
  /\ fpResB' = fingerprintTypeNode(fingerprintCache, fpB)
  /\ fingerprintCache' = CacheAfter(fingerprintCache, fpB)
  /\ UNCHANGED <<fpA, fpB, fpResA, regVars, genVars, extVars>>

NextFp == FingerprintA \/ FingerprintB

SpecFp == InitFp /\ [][NextFp]_vars

(***************************************************************************)
(* Claims on fingerprinting                                                *)
(***************************************************************************)
FpBothDone == fpResA # <<>> /\ fpResB # <<>>

\* C1: permuting attribute insertion order or union member order, at any depth,
\* never changes the fingerprint: two nodes that are structurally identical
\* modulo ordering get exactly the same fingerprint string.
C1_OrderIndependent ==
  (FpBothDone /\ SameStructure(fpA, fpB)) => fpResA = fpResB

\* witness: a nested object whose attributes and inner union are permuted
C1_Witness ==
  /\ FpBothDone
  /\ fpA \in FpDepth3 /\ fpB \in FpDepth3
  /\ fpA # fpB
  /\ SameStructure(fpA, fpB)
  /\ fpA.attributes[1].key # fpB.attributes[1].key

\* C2 (as claimed): equal fingerprints only for structurally identical nodes
C2_InjectiveOnStructure ==
  (FpBothDone /\ fpResA = fpResB) => SameStructure(fpA, fpB)

(***************************************************************************)
(* SpecReg: a bounded batch of TypeNodes is collected and the registry is  *)
(* built record by record                                                  *)
(***************************************************************************)
MaxBatch == 2

KEY_X == <<"x">>
KEY_Y == <<"y">>
KEY_ITEM == <<"i", "t", "e", "m">>
KEY_ITEMS == <<"i", "t", "e", "m", "s">>
KEY_TITLE == <<"t", "i", "t", "l", "e">>

PointN == Obj(<<Attr(KEY_X, FALSE, NumNode), Attr(KEY_Y, FALSE, NumNode)>>)
PointS == Obj(<<Attr(KEY_X, FALSE, StrNode), Attr(KEY_Y, FALSE, StrNode)>>)
Single == Obj(<<Attr(KEY_X, FALSE, NumNode)>>)
Struct ==
  Obj(<<Attr(KEY_KEY, FALSE, StrNode), Attr(KEY_TYPE, TRUE, StrLit(KEY_ITEM)),
        Attr(KEY_REF, FALSE, StrNode), Attr(KEY_X, FALSE, NumNode)>>)
Typed ==
  Obj(<<Attr(KEY_TYPE, FALSE, StrLit(KEY_ITEM)), Attr(KEY_X, FALSE, NumNode),
        Attr(KEY_Y, TRUE, NumNode)>>)
Big ==
  Obj(<<Attr(KEY_X, FALSE, NumNode), Attr(KEY_Y, FALSE, NumNode),
        Attr(KEY_TITLE, FALSE, StrNode)>>)

ItemsOfPointN == Obj(<<Attr(KEY_ITEMS, FALSE, ArrayNode(PointN))>>)
ItemPointS == Obj(<<Attr(KEY_ITEM, TRUE, PointS)>>)
ArrayOfTyped == ArrayNode(Typed)
Mixed == UnionNode(<<PointN, Single, Struct>>)
MixedBig == UnionNode(<<PointN, Single, Big>>)
TwoItems == Obj(<<Attr(KEY_ITEMS, FALSE, ArrayNode(PointN)), Attr(KEY_ITEM, FALSE, PointS)>>)

RegTop == {PointN, ItemsOfPointN, ItemPointS, ArrayOfTyped, Mixed, MixedBig, Big, TwoItems}

INLINE_ITEM == INLINE \o <<"I", "t", "e", "m">>
INLINE_TYPE == INLINE \o <<"T", "y", "p", "e">>

RegExistingPool == {INLINE_ITEM, INLINE_ITEM \o <<"_", "2">>, INLINE_TYPE}

InitReg ==
  /\ FpIdle
  /\ GenIdle
  /\ ExtIdle
  /\ regBatch \in UNION {[1..k -> RegTop] : k \in 1..MaxBatch}
  /\ regExisting \in SUBSET RegExistingPool
  /\ regFingerprints = <<>>
  /\ regIdx = 0
  /\ regState = EmptyRegistryState
  /\ regPc = "start"

\* collectObjectFingerprints(typeNodes), then buildDeduplicationRegistry up to its loop
RegCollect ==
  /\ regPc = "start"
  /\ regFingerprints' = collectObjectFingerprints(regBatch)
  /\ regState' = [currentIdentifiers |-> regExisting, extractedTypes |-> <<>>]
  /\ regIdx' = 1
  /\ regPc' = "build"
  /\ UNCHANGED <<fpVars, genVars, extVars, regBatch, regExisting>>

\* one iteration of `for (const [fp, {candidateName, count, typeNode}] of fingerprints)`
RegBuildStep ==
  /\ regPc = "build"
  /\ regIdx <= Len(regFingerprints)
  /\ regState' = RegistryStep(regState, regFingerprints[regIdx])
  /\ regIdx' = regIdx + 1
  /\ UNCHANGED <<fpVars, genVars, extVars, regBatch, regExisting, regFingerprints, regPc>>

\* return {extractedTypes}
RegReturn ==
  /\ regPc = "build"
  /\ regIdx > Len(regFingerprints)
  /\ regPc' = "done"
  /\ UNCHANGED <<fpVars, genVars, extVars, regBatch, regExisting, regFingerprints, regIdx, regState>>

NextReg == RegCollect \/ RegBuildStep \/ RegReturn

SpecReg == InitReg /\ [][NextReg]_vars

(***************************************************************************)
(* Claims on the deduplication registry                                    *)
(***************************************************************************)
RegExtractedFps == {regState.extractedTypes[j].fp : j \in DOMAIN regState.extractedTypes}

NonStructuralCount(typeNode) ==
  Cardinality({i \in DOMAIN typeNode.attributes :
                 typeNode.attributes[i].key \notin {KEY_KEY, KEY_REF, KEY_TYPE}})

\* C3: a record is extracted if and only if its count is at least 2 and its
\* object has at least 2 attribute keys outside {_key, _ref, _type}.
C3_ExtractionThreshold ==
  regPc = "done" =>
    \A i \in DOMAIN regFingerprints :
      (regFingerprints[i].fp \in RegExtractedFps)
        <=> (regFingerprints[i].count >= 2
             /\ NonStructuralCount(regFingerprints[i].typeNode) >= 2)

\* witness: one finished build with a shape at exactly the threshold (count 2,
\* 2 meaningful keys, extracted), a shape seen twice with 1 meaningful key and a
\* shape seen once with 3 meaningful keys (both left inline)
C3_Witness ==
  /\ regPc = "done"
  /\ \E i, j, k \in DOMAIN regFingerprints :
       /\ regFingerprints[i].count = 2
       /\ NonStructuralCount(regFingerprints[i].typeNode) = 2
       /\ regFingerprints[i].fp \in RegExtractedFps
       /\ regFingerprints[j].count = 2
       /\ NonStructuralCount(regFingerprints[j].typeNode) = 1
       /\ regFingerprints[j].fp \notin RegExtractedFps
       /\ regFingerprints[k].count = 1
       /\ NonStructuralCount(regFingerprints[k].typeNode) = 3
       /\ regFingerprints[k].fp \notin RegExtractedFps

\* C4: the identifiers assigned by buildDeduplicationRegistry are pairwise
\* distinct and none of them is a member of existingIdentifiers, after every
\* record processed.
C4_DistinctIdentifiers ==
  LET ex == regState.extractedTypes IN
  /\ \A i, j \in DOMAIN ex : ex[i].id = ex[j].id => i = j
  /\ \A i \in DOMAIN ex : ex[i].id \notin regExisting

\* witness: two different fingerprints with the candidate name "item" while
\* InlineItem is already taken: they get InlineItem_2 and InlineItem_3
C4_Witness ==
  /\ regPc = "done"
  /\ INLINE_ITEM \in regExisting
  /\ \E i, j \in DOMAIN regState.extractedTypes :
       /\ regState.extractedTypes[i].id = INLINE_ITEM \o <<"_", "2">>
       /\ regState.extractedTypes[j].id = INLINE_ITEM \o <<"_", "3">>
       /\ regState.extractedTypes[i].fp # regState.extractedTypes[j].fp

(***************************************************************************)
(* SchemaTypeGenerator (schemaTypeGenerator.ts) as far as generateTypes    *)
(* depends on it: identifier assignment in schema order, the duplicate     *)
(* name check, the ArrayOf usage flag and the installed registry.          *)
(***************************************************************************)
HasDuplicateTypeName(schema) ==
  \E i, j \in DOMAIN schema : i # j /\ schema[i].name = schema[j].name

RECURSIVE SchemaIdentifiersFrom(_, _, _)
SchemaIdentifiersFrom(schema, i, ids) ==
  IF i > Len(schema) THEN ids
  ELSE SchemaIdentifiersFrom(schema, i + 1,
         Append(ids, getUniqueIdentifierForName(schema[i].name, Range(ids))))

SchemaIdentifiers(schema) == SchemaIdentifiersFrom(schema, 1, <<>>)

\* lowering typeNode produces an ArrayOf<...> reference: some array in it has an
\* inline element type or a union element type with an inline member
RECURSIVE NeedsArrayOf(_)
NeedsArrayOf(typeNode) ==
  CASE typeNode.type = "array" ->
         \/ typeNode.of.type = "inline"
         \/ /\ typeNode.of.type = "union"
            /\ \E i \in DOMAIN typeNode.of.members : typeNode.of.members[i].type = "inline"
         \/ NeedsArrayOf(typeNode.of)
    [] typeNode.type = "union" ->
         \E i \in DOMAIN typeNode.members : NeedsArrayOf(typeNode.members[i])
    [] typeNode.type = "object" ->
         \/ \E i \in DOMAIN typeNode.attributes : NeedsArrayOf(typeNode.attributes[i].value)
         \/ (typeNode.rest # NoNode /\ NeedsArrayOf(typeNode.rest))
    [] OTHER -> FALSE

\* new SchemaTypeGenerator(schema), for a schema without duplicate names
NewSchemaTypeGenerator(schema) ==
  [identifiers |-> SchemaIdentifiers(schema),
   arrayOfUsed |-> \E i \in DOMAIN schema : NeedsArrayOf(schema[i].value),
   registryInstalled |-> FALSE,
   deduplicationRegistry |-> <<>>]

isArrayOfUsed(schemaTypeGenerator) == schemaTypeGenerator.arrayOfUsed

\* the error thrown by the constructor for the first entry whose name an
\* earlier entry already has:
\*   Duplicate type name "<name>" in schema. Type names must be unique ...
DuplicateTypeNameError(schema) ==
  LET j == CHOOSE j \in DOMAIN schema :
             /\ \E i \in 1..(j - 1) : schema[i].name = schema[j].name
             /\ \A k \in 1..(j - 1) : ~\E i \in 1..(k - 1) : schema[i].name = schema[k].name
  IN  [name |-> "Error", detail |-> schema[j].name]

\* casing.ts: the result-type suffix appended to a query variable name
RESULT == <<"R", "e", "s", "u", "l", "t">>
resultSuffix(variableName) == variableName \o RESULT

\* constants.ts: the name of the symbol that marks a dereference target
INTERNAL_REFERENCE_SYMBOL ==
  <<"i", "n", "t", "e", "r", "n", "a", "l", "G", "r", "o", "q", "T", "y", "p", "e",
    "R", "e", "f", "e", "r", "e", "n", "c", "e", "T", "o">>

(***************************************************************************)
(* SchemaTypeGenerator: lowering of a TypeNode to a TS type.  A lowered    *)
(* type that stems from an object node carries that node's fingerprint in  *)
(* `fp`; a type literal also lists in `flattened` the fingerprints of the  *)
(* rest objects whose attributes were merged into it.                      *)
(* ctx = [schema, identifiers, registry, self]: the schema entries and     *)
(* their identifiers, the installed registry, and the fingerprint of the   *)
(* extracted type being declared (<<>> when lowering a query).             *)
(***************************************************************************)
TsUnknown == [ts |-> "unknown", fp |-> <<>>]
TsUnknownObject(fp) == [ts |-> "unknown", fp |-> fp]
TsNever == [ts |-> "never"]
TsKeyword(name) == [ts |-> "keyword", name |-> name]
TsLiteralType(typeNode) == [ts |-> "literal", of |-> typeNode]
TsSchemaReference(id) == [ts |-> "reference", id |-> id, fp |-> <<>>]
TsRegistryReference(id, fp) == [ts |-> "reference", id |-> id, fp |-> fp]
TsArray(of) == [ts |-> "array", of |-> of]
TsArrayOf(of) == [ts |-> "arrayOf", of |-> of]
TsUnion(types) == [ts |-> "union", types |-> types]
TsIntersection(types) == [ts |-> "intersection", types |-> types]
TsTypeLiteral(members, fp, flattened) ==
  [ts |-> "typeLiteral", members |-> members, fp |-> fp, flattened |-> flattened]
TsProperty(key, optional, type) == [key |-> key, optional |-> optional, type |-> type]

RegistryHas(registry, fp) == \E i \in DOMAIN registry : registry[i].fp = fp

RegistryEntry(registry, fp) == registry[CHOOSE i \in DOMAIN registry : registry[i].fp = fp]

SchemaHas(ctx, name) == \E i \in DOMAIN ctx.schema : ctx.schema[i].name = name

SchemaIdentifierOf(ctx, name) ==
  ctx.identifiers[CHOOSE i \in DOMAIN ctx.schema : ctx.schema[i].name = name]

IsInlineNode(typeNode) == typeNode.type = "inline"

RECURSIVE generateTsType(_, _)
RECURSIVE generateObjectProperties(_, _, _)
RECURSIVE generateMemberTypes(_, _, _)

\* the lowering of one TypeNode
generateTsType(typeNode, ctx) ==
  CASE typeNode.type = "unknown" -> TsUnknown
    [] typeNode.type = "null" -> TsKeyword("null")
    [] typeNode.type \in {"boolean", "number", "string"} ->
         IF typeNode.hasValue THEN TsLiteralType(typeNode) ELSE TsKeyword(typeNode.type)
    [] typeNode.type = "inline" ->
         IF SchemaHas(ctx, typeNode.name)
         THEN TsSchemaReference(SchemaIdentifierOf(ctx, typeNode.name))
         ELSE TsUnknown
    [] typeNode.type = "array" ->
         IF typeNode.of.type = "inline" THEN TsArrayOf(generateTsType(typeNode.of, ctx))
         ELSE IF /\ typeNode.of.type = "union"
                 /\ \E i \in DOMAIN typeNode.of.members : IsInlineNode(typeNode.of.members[i])
         THEN TsUnion(<<
                TsArray(generateTsType(
                  UnionNode(SelectSeq(typeNode.of.members, LAMBDA m : ~IsInlineNode(m))), ctx)),
                TsArrayOf(generateTsType(
                  UnionNode(SelectSeq(typeNode.of.members, IsInlineNode)), ctx))>>)
         ELSE TsArray(generateTsType(typeNode.of, ctx))
    [] typeNode.type = "union" ->
         IF Len(typeNode.members) = 0 THEN TsNever
         ELSE IF Len(typeNode.members) = 1 THEN generateTsType(typeNode.members[1], ctx)
         ELSE TsUnion(generateMemberTypes(typeNode.members, 1, ctx))
    [] typeNode.type = "object" ->
         LET fp == computeFingerprint(typeNode)
             own == generateObjectProperties(typeNode.attributes, 1, ctx)
             deref == IF typeNode.dereferencesTo # <<>>
                      THEN <<TsProperty(INTERNAL_REFERENCE_SYMBOL, TRUE,
                                        TsLiteralType(StrLit(typeNode.dereferencesTo)))>>
                      ELSE <<>>
         IN  IF fp # ctx.self /\ RegistryHas(ctx.registry, fp)
             THEN TsRegistryReference(RegistryEntry(ctx.registry, fp).id, fp)
             ELSE IF typeNode.rest = NoNode THEN TsTypeLiteral(own \o deref, fp, {})
             ELSE IF typeNode.rest.type = "unknown" THEN TsUnknownObject(fp)
             ELSE IF typeNode.rest.type = "object"
             THEN TsTypeLiteral(
                    own \o generateObjectProperties(typeNode.rest.attributes, 1, ctx) \o deref,
                    fp, {computeFingerprint(typeNode.rest)})
             ELSE IF typeNode.rest.type = "inline" /\ SchemaHas(ctx, typeNode.rest.name)
             THEN TsIntersection(<<TsTypeLiteral(own \o deref, fp, {}),
                                   TsSchemaReference(SchemaIdentifierOf(ctx, typeNode.rest.name))>>)
             ELSE TsUnknownObject(fp)

generateObjectProperties(attributes, i, ctx) ==
  IF i > Len(attributes) THEN <<>>
  ELSE <<TsProperty(attributes[i].key, attributes[i].optional,
                    generateTsType(attributes[i].value, ctx))>>
       \o generateObjectProperties(attributes, i + 1, ctx)

generateMemberTypes(members, i, ctx) ==
  IF i > Len(members) THEN <<>>
  ELSE <<generateTsType(members[i], ctx)>> \o generateMemberTypes(members, i + 1, ctx)

\* schemaTypeGenerator.generateQueryTsType(typeNode)
generateQueryTsType(typeNode, ctx) == generateTsType(typeNode, [ctx EXCEPT !.self = <<>>])

\* schemaTypeGenerator.generateExtractedTypeTsType(typeNode, fp): the entry's
\* own fingerprint is not resolved to a reference
generateExtractedTypeTsType(typeNode, fp, ctx) ==
  generateTsType(typeNode, [ctx EXCEPT !.self = fp])

(***************************************************************************)
(* schemaTypeGenerator.ts: walkAndCountQueryTypeNodeStats, as its tests    *)
(* pin it down                                                             *)
(***************************************************************************)
AddStats(a, b) ==
  [allTypes |-> a.allTypes + b.allTypes, unknownTypes |-> a.unknownTypes + b.unknownTypes,
   emptyUnions |-> a.emptyUnions + b.emptyUnions]

\* variant that leaves the node itself out of allTypes
SkipSelf(stats) == stats

\* the node itself is one more type
CountSelf(stats) == [stats EXCEPT !.allTypes = @ + 1]

RECURSIVE walkAndCountQueryTypeNodeStats(_)
RECURSIVE SumOfStats(_, _)

walkAndCountQueryTypeNodeStats(typeNode) ==
  CASE typeNode.type = "unknown" -> CountSelf([NoStats EXCEPT !.unknownTypes = 1])
    [] typeNode.type = "array" -> CountSelf(walkAndCountQueryTypeNodeStats(typeNode.of))
    [] typeNode.type = "union" ->
         IF Len(typeNode.members) = 0 THEN CountSelf([NoStats EXCEPT !.emptyUnions = 1])
         ELSE CountSelf(SumOfStats(typeNode.members, 1))
    [] typeNode.type = "object" ->
         IF typeNode.rest # NoNode /\ typeNode.rest.type = "unknown"
         THEN CountSelf(CountSelf([NoStats EXCEPT !.unknownTypes = 1]))
         ELSE CountSelf(AddStats(
                SumOfStats([i \in DOMAIN typeNode.attributes |-> typeNode.attributes[i].value], 1),
                IF typeNode.rest # NoNode THEN walkAndCountQueryTypeNodeStats(typeNode.rest)
                ELSE NoStats))
    [] OTHER -> CountSelf(NoStats)

SumOfStats(typeNodes, i) ==
  IF i > Len(typeNodes) THEN NoStats
  ELSE AddStats(walkAndCountQueryTypeNodeStats(typeNodes[i]), SumOfStats(typeNodes, i + 1))

(***************************************************************************)
(* typeGenerator.ts: TypeGenerator.generateTypes and its static helpers    *)
(***************************************************************************)

Decl(section, id) == [section |-> section, id |-> id]

\* the declaration of an extracted type: `type <id> = <body>`
ExtractedDecl(id, fp, tsType) ==
  [section |-> "extracted", id |-> id, fp |-> fp, tsType |-> tsType]

\* variant of schemaTypeGenerator.setDeduplicationRegistry(registry) that
\* leaves the generator without a registry
RegistryNotHandedOver(registry) == <<>>

\* schemaTypeGenerator.setDeduplicationRegistry(registry): the registry the
\* generator lowers with from now on
RegistryHandedToGenerator(registry) == registry

\* what the schema type generator of the running call lowers with
LoweringContext(schemaTypeGenerator) ==
  [schema |-> options.schema, identifiers |-> schemaTypeGenerator.identifiers,
   registry |-> schemaTypeGenerator.deduplicationRegistry, self |-> <<>>]

Event(kind, filename) == [kind |-> kind, filename |-> filename]

\* report?.<channel>(...): a no-op without a reporter
Report(evs, e) == IF options.reporter THEN Append(evs, e) ELSE evs

\* variant that reports the schema event before the schema is compiled
ReportedBeforeSchemaCompilationEager(evs) ==
  IF options.reporter THEN Append(evs, Event("generatedSchemaTypes", "")) ELSE evs

\* what generateTypes has reported when getSchemaTypeGenerator(options) is
\* evaluated, its first statement that can throw: nothing yet
ReportedBeforeSchemaCompilation(evs) == evs

\* variant of the catch block of collectModules that drops the error
CatchNothing(errors, filename, variable) == errors

\* errors.push(new QueryEvaluationError({cause, filename, variable}))
CatchEvaluationError(errors, filename, variable) ==
  Append(errors, [kind |-> "QueryEvaluationError", filename |-> filename,
                  variable |-> variable])

\* the inner loop of collectModules over the queries of one module;
\* acc = [queries, errors]
RECURSIVE EvaluateQueries(_, _, _, _)
EvaluateQueries(filename, queries, i, acc) ==
  IF i > Len(queries) THEN acc
  ELSE EvaluateQueries(filename, queries, i + 1,
         IF queries[i].throws
         THEN [acc EXCEPT !.errors = CatchEvaluationError(@, filename, queries[i].variable)]
         ELSE [acc EXCEPT !.queries = Append(@, queries[i])])

\* one iteration of the for await loop of collectModules
CollectOne(extractedModule) ==
  LET acc == EvaluateQueries(extractedModule.filename, extractedModule.queries, 1,
                             [queries |-> <<>>, errors |-> extractedModule.errors])
  IN  [filename |-> extractedModule.filename, errors |-> acc.errors, queries |-> acc.queries]

\* the for await loop of collectModules has consumed the whole source
\* (variant: the loop is left before the source is exhausted)
SourceDrainedEarly == TRUE

SourceDrained == ~options.hasQueries \/ srcPos = Len(options.queries)

\* where generateTypes continues when the query source throws: collectModules
\* has no handler around the for await loop, so the rejection propagates
\* (variant: the error is swallowed and the run goes on with what was collected)
PcAfterSourceErrorSwallowed == "registry"

PcAfterSourceError == "rejectedSource"

RECURSIVE FlatQueries(_)
FlatQueries(modules) ==
  IF modules = <<>> THEN <<>> ELSE Head(modules).queries \o FlatQueries(Tail(modules))

TypeNodesOf(queries) == [i \in DOMAIN queries |-> queries[i].typeNode]

\* the item pushed on the evaluatedModules stream: the evaluated module itself
StreamItem(evaluatedModule) ==
  [kind |-> "evaluatedModule", filename |-> evaluatedModule.filename,
   errors |-> evaluatedModule.errors]

\* variant that only streams the modules that have evaluated queries
EmitModulesWithQueries(evs, evaluatedModule) ==
  IF Len(evaluatedModule.queries) = 0 THEN evs ELSE Report(evs, StreamItem(evaluatedModule))

\* report?.stream.evaluatedModules.emit(evaluatedModule)
EmitEvaluatedModule(evs, evaluatedModule) == Report(evs, StreamItem(evaluatedModule))

\* variant of currentIdentifiers.add(id.name) in generateEvaluatedModules
KeepIdentifiers(identifiers, name) == identifiers

\* currentIdentifiers.add(id.name) in generateEvaluatedModules
AddQueryIdentifier(identifiers, name) == identifiers \cup {name}

\* the inner loop of generateEvaluatedModules over the queries of one module;
\* acc = [queries, currentIdentifiers, arrayOfUsed]
RECURSIVE LowerQueries(_, _, _)
LowerQueries(queries, i, acc) ==
  IF i > Len(queries) THEN acc
  ELSE LET id == getUniqueIdentifierForName(resultSuffix(queries[i].variable),
                                            acc.currentIdentifiers)
       IN  LowerQueries(queries, i + 1,
             [queries |-> Append(acc.queries,
                                 [variable |-> queries[i].variable, query |-> queries[i].query,
                                  typeNode |-> queries[i].typeNode, id |-> id,
                                  tsType |-> generateQueryTsType(queries[i].typeNode,
                                                                 LoweringContext(stg))]),
              currentIdentifiers |-> AddQueryIdentifier(acc.currentIdentifiers, id),
              arrayOfUsed |-> acc.arrayOfUsed \/ NeedsArrayOf(queries[i].typeNode)])

\* variant that appends the ArrayOf alias after the query declarations
TailDeclarationsArrayOfLast(arrayOfDeclaration, queryDeclarations) ==
  queryDeclarations \o arrayOfDeclaration

\* the declarations appended after phase 3: ArrayOf (if used), then the queries
TailDeclarations(arrayOfDeclaration, queryDeclarations) ==
  arrayOfDeclaration \o queryDeclarations

(***************************************************************************)
(* The plain object `typesByQuerystring` of getQueryMapDeclaration.  An    *)
(* object is the sequence of its own properties [key, types] in the order  *)
(* Object.entries enumerates them: array-index keys in ascending numeric   *)
(* order first, every other string key in creation order after them.       *)
(* A key that is not an own property is looked up on Object.prototype.     *)
(***************************************************************************)
OBJECT_PROTOTYPE_KEYS ==
  {<<"c", "o", "n", "s", "t", "r", "u", "c", "t", "o", "r">>,
   <<"h", "a", "s", "O", "w", "n", "P", "r", "o", "p", "e", "r", "t", "y">>,
   <<"i", "s", "P", "r", "o", "t", "o", "t", "y", "p", "e", "O", "f">>,
   <<"p", "r", "o", "p", "e", "r", "t", "y", "I", "s", "E", "n", "u", "m", "e", "r", "a", "b", "l", "e">>,
   <<"t", "o", "L", "o", "c", "a", "l", "e", "S", "t", "r", "i", "n", "g">>,
   <<"t", "o", "S", "t", "r", "i", "n", "g">>,
   <<"v", "a", "l", "u", "e", "O", "f">>,
   <<"_", "_", "p", "r", "o", "t", "o", "_", "_">>,
   <<"_", "_", "d", "e", "f", "i", "n", "e", "G", "e", "t", "t", "e", "r", "_", "_">>,
   <<"_", "_", "d", "e", "f", "i", "n", "e", "S", "e", "t", "t", "e", "r", "_", "_">>,
   <<"_", "_", "l", "o", "o", "k", "u", "p", "G", "e", "t", "t", "e", "r", "_", "_">>,
   <<"_", "_", "l", "o", "o", "k", "u", "p", "S", "e", "t", "t", "e", "r", "_", "_">>}

MAX_ARRAY_INDEX == <<"4", "2", "9", "4", "9", "6", "7", "2", "9", "4">>

IsCanonicalNumeric(key) ==
  /\ key # <<>>
  /\ \A i \in DOMAIN key : IsDigit(key[i])
  /\ (Len(key) = 1 \/ key[1] # "0")

\* an array index: a canonical numeric string below 2^32 - 1
IsArrayIndex(key) ==
  /\ IsCanonicalNumeric(key)
  /\ \/ Len(key) < Len(MAX_ARRAY_INDEX)
     \/ (Len(key) = Len(MAX_ARRAY_INDEX) /\ ~StrLess(MAX_ARRAY_INDEX, key))

\* numeric order of two array-index keys
IndexLess(a, b) == Len(a) < Len(b) \/ (Len(a) = Len(b) /\ StrLess(a, b))

HasOwnProperty(obj, key) == \E i \in DOMAIN obj : obj[i].key = key

OwnPropertyIndex(obj, key) == CHOOSE i \in DOMAIN obj : obj[i].key = key

\* number of own properties enumerated before a new property `key`
PropertiesBefore(obj, key) ==
  IF IsArrayIndex(key)
  THEN Cardinality({i \in DOMAIN obj : IsArrayIndex(obj[i].key) /\ IndexLess(obj[i].key, key)})
  ELSE Len(obj)

\* obj[key] = value for a key that is not yet an own property
DefineOwnProperty(obj, key, value) ==
  LET n == PropertiesBefore(obj, key)
  IN  SubSeq(obj, 1, n) \o <<[key |-> key, types |-> value]>> \o SubSeq(obj, n + 1, Len(obj))

\* obj[key] is neither an own property nor undefined: the value inherited from
\* Object.prototype, which has no push method
GetsInheritedValue(obj, key) == ~HasOwnProperty(obj, key) /\ key \in OBJECT_PROTOTYPE_KEYS

\* one iteration of `for (const {id, query} of queries)`:
\*   typesByQuerystring[query] ??= []; typesByQuerystring[query].push(id.name)
\* (called only when the push does not throw)
GroupQuery(obj, evaluatedQuery) ==
  IF HasOwnProperty(obj, evaluatedQuery.query)
  THEN [obj EXCEPT ![OwnPropertyIndex(obj, evaluatedQuery.query)].types =
                     Append(@, evaluatedQuery.id)]
  ELSE DefineOwnProperty(obj, evaluatedQuery.query, <<evaluatedQuery.id>>)

\* the whole grouping loop; acc = [threw, obj]
RECURSIVE GroupQueries(_, _, _)
GroupQueries(queries, i, acc) ==
  IF i > Len(queries) \/ acc.threw THEN acc
  ELSE GroupQueries(queries, i + 1,
         IF GetsInheritedValue(acc.obj, queries[i].query)
         THEN [acc EXCEPT !.threw = TRUE]
         ELSE [acc EXCEPT !.obj = GroupQuery(@, queries[i])])

\* getQueryMapDeclaration throws a TypeError out of its grouping loop
QueryMapThrows(modules, overloadClientMethods) ==
  /\ overloadClientMethods
  /\ GroupQueries(FlatQueries(modules), 1, [threw |-> FALSE, obj |-> <<>>]).threw

\* variant of getQueryMapDeclaration without the `queries.length === 0` return
QueryMapAlways(modules, overloadClientMethods) ==
  IF ~overloadClientMethods THEN <<>>
  ELSE <<Decl("import", <<>>), Decl("declareModule", SANITY_QUERIES)>>

\* getQueryMapDeclaration: the statements of queryMapDeclaration.ast.body
getQueryMapDeclaration(modules, overloadClientMethods) ==
  IF ~overloadClientMethods THEN <<>>
  ELSE IF Len(FlatQueries(modules)) = 0 THEN <<>>
  ELSE <<Decl("import", <<>>), Decl("declareModule", SANITY_QUERIES)>>

(***************************************************************************)
(* Spec: one generateTypes call on a fresh TypeGenerator                   *)
(***************************************************************************)
MaxModules == 2

NAME_FOO == <<"f", "o", "o">>
NAME_BAR == <<"b", "a", "r">>
NAME_POST == <<"p", "o", "s", "t">>
NAME_TAG == <<"t", "a", "g">>
QUERY_FOO == <<"q", "u", "e", "r", "y", "F", "o", "o">>
QUERY_FOO_PASCAL == <<"Q", "u", "e", "r", "y", "F", "o", "o">>
QUERY_BAD == <<"q", "u", "e", "r", "y", "B", "a", "d">>
QUERY_TAGS == <<"q", "u", "e", "r", "y", "T", "a", "g", "s">>
INLINE_A == <<"i", "n", "l", "i", "n", "e", "A">>
KEY_A_RESULT == <<"a">> \o RESULT
KEY_B == <<"b">>

QUERY_FOO_RESULT_N(n) == QUERY_FOO_PASCAL \o RESULT \o <<"_">> \o NumToStr(n)

SchemaEntry(name, value) == [name |-> name, value |-> value]

SchemaFooBar == <<SchemaEntry(NAME_FOO, Single), SchemaEntry(NAME_BAR, PointS)>>
SchemaSanitize ==
  <<SchemaEntry(<<"f", "o", "o", ".", "b", "a", "r">>, Single),
    SchemaEntry(<<"f", "o", "o", "-", "b", "a", "r">>, PointS)>>
SchemaArrays ==
  <<SchemaEntry(NAME_POST, Obj(<<Attr(KEY_ITEMS, FALSE, ArrayNode(InlineNode(NAME_TAG)))>>)),
    SchemaEntry(NAME_TAG, PointS)>>
SchemaClash ==
  <<SchemaEntry(<<"i", "n", "l", "i", "n", "e", "I", "t", "e", "m">>, Single),
    SchemaEntry(QUERY_FOO \o RESULT, PointS)>>
SchemaDuplicate == <<SchemaEntry(NAME_FOO, Single), SchemaEntry(NAME_FOO, PointS)>>

SchemaPool == {SchemaFooBar, SchemaSanitize, SchemaArrays, SchemaClash, SchemaDuplicate}

ExtractedQuery(variable, query, typeNode, throws) ==
  [variable |-> variable, query |-> query, typeNode |-> typeNode, throws |-> throws]

ExtractedModule(filename, errors, queries) ==
  [filename |-> filename, errors |-> errors, queries |-> queries]

QUERY_TEXT_1 == <<"q", "1">>
QUERY_TEXT_2 == <<"q", "2">>
QUERY_TEXT_3 == <<"q", "3">>

ModuleFoo ==
  ExtractedModule("foo.ts", <<>>,
    <<ExtractedQuery(QUERY_FOO, QUERY_TEXT_1, ItemsOfPointN, FALSE)>>)
ModuleNoQueries == ExtractedModule("no-queries", <<>>, <<>>)
ModuleHasAnError ==
  ExtractedModule("has-an-error",
    <<[kind |-> "QueryExtractionError", filename |-> "has-an-error", variable |-> <<>>]>>,
    <<>>)
ModuleMixed ==
  ExtractedModule("mixed.ts", <<>>,
    <<ExtractedQuery(QUERY_BAD, QUERY_TEXT_2, Big, TRUE),
      ExtractedQuery(QUERY_FOO, QUERY_TEXT_1, TwoItems, FALSE)>>)
ModuleDedup ==
  ExtractedModule("dedup.ts", <<>>,
    <<ExtractedQuery(INLINE_A, QUERY_TEXT_3,
        Obj(<<Attr(KEY_A_RESULT, FALSE, PointS), Attr(KEY_B, TRUE, PointS)>>), FALSE)>>)
ModuleTags ==
  ExtractedModule("tags.ts", <<>>,
    <<ExtractedQuery(QUERY_TAGS, QUERY_TEXT_2,
        ArrayNode(UnionNode(<<InlineNode(NAME_TAG), NullNode>>)), FALSE)>>)

ModulePool == {ModuleFoo, ModuleNoQueries, ModuleHasAnError, ModuleMixed, ModuleDedup, ModuleTags}

Init ==
  /\ FpIdle
  /\ RegIdle
  /\ ExtIdle
  /\ options \in [schema : SchemaPool,
                  hasQueries : BOOLEAN,
                  queries : UNION {[1..k -> ModulePool] : k \in 0..MaxModules},
                  overloadClientMethods : BOOLEAN,
                  reporter : BOOLEAN]
  /\ (~options.hasQueries => options.queries = <<>>)
  /\ pc = "start"
  /\ srcPos = 0
  /\ srcState = "open"
  /\ collectedModules = <<>>
  /\ allTypeNodes = <<>>
  /\ currentIdentifiers = {}
  /\ stg = NoSchemaTypeGenerator
  /\ program = <<>>
  /\ evaluatedModules = <<>>
  /\ events = <<>>
  /\ rejection = NoError

\* generateTypes up to the first await: the schema compiler is constructed (and
\* throws on a duplicate type name), the schema event is reported and the
\* schema declarations, the union and the reference symbol are appended
GenStart ==
  /\ pc = "start"
  /\ IF HasDuplicateTypeName(options.schema)
     THEN /\ pc' = "rejectedSchema"
          /\ rejection' = DuplicateTypeNameError(options.schema)
          /\ events' = ReportedBeforeSchemaCompilation(events)
          /\ UNCHANGED <<stg, program>>
     ELSE LET schemaTypeGenerator == NewSchemaTypeGenerator(options.schema) IN
          /\ stg' = schemaTypeGenerator
          /\ rejection' = rejection
          /\ events' = Report(events, Event("generatedSchemaTypes", ""))
          /\ program' = [i \in DOMAIN schemaTypeGenerator.identifiers |->
                           Decl("schema", schemaTypeGenerator.identifiers[i])]
                        \o <<Decl("allSchemaTypes", ALL_SANITY_SCHEMA_TYPES),
                             Decl("referenceSymbol", INTERNAL_REFERENCE_SYMBOL)>>
          /\ pc' = "collect"
  /\ UNCHANGED <<fpVars, regVars, extVars, options, srcPos, srcState, collectedModules, allTypeNodes,
                 currentIdentifiers, evaluatedModules>>

\* the query source yields its next module and collectModules evaluates it
CollectModule ==
  /\ pc = "collect"
  /\ options.hasQueries
  /\ srcState = "open"
  /\ srcPos < Len(options.queries)
  /\ srcPos' = srcPos + 1
  /\ collectedModules' = Append(collectedModules, CollectOne(options.queries[srcPos + 1]))
  /\ UNCHANGED <<fpVars, regVars, extVars, rejection, options, pc, srcState, allTypeNodes, currentIdentifiers, stg,
                 program, evaluatedModules, events>>

\* the query source throws instead of yielding or completing
SourceThrows ==
  /\ pc = "collect"
  /\ options.hasQueries
  /\ srcState = "open"
  /\ srcState' = "threw"
  /\ pc' = PcAfterSourceError
  /\ rejection' = IF PcAfterSourceError = "rejectedSource"
                  THEN [name |-> "SourceError", detail |-> <<>>] ELSE rejection
  /\ UNCHANGED <<fpVars, regVars, extVars, options, srcPos, collectedModules, allTypeNodes,
                 currentIdentifiers, stg, program, evaluatedModules, events>>

\* the query source completes (or there is none) and collectModules returns
CollectDone ==
  /\ pc = "collect"
  /\ srcState = "open"
  /\ SourceDrained
  /\ srcState' = "completed"
  /\ pc' = "registry"
  /\ UNCHANGED <<fpVars, regVars, extVars, rejection, options, srcPos, collectedModules, allTypeNodes,
                 currentIdentifiers, stg, program, evaluatedModules, events>>

\* phase 2: fingerprints, registry, setDeduplicationRegistry and the
\* declarations of the extracted types
BuildRegistry ==
  /\ pc = "registry"
  /\ LET nodes == TypeNodesOf(FlatQueries(collectedModules))
         fingerprints == collectObjectFingerprints(nodes)
         schemaIds == Range(stg.identifiers)
         extractedTypes == buildDeduplicationRegistry(fingerprints, schemaIds)
         installed == [stg EXCEPT
                         !.deduplicationRegistry = RegistryHandedToGenerator(extractedTypes)]
     IN  /\ allTypeNodes' = nodes
         /\ stg' = [stg EXCEPT
                      !.registryInstalled = TRUE,
                      !.deduplicationRegistry = RegistryHandedToGenerator(extractedTypes),
                      !.arrayOfUsed = @ \/ \E i \in DOMAIN extractedTypes :
                                             NeedsArrayOf(extractedTypes[i].typeNode)]
         /\ currentIdentifiers' =
              schemaIds \cup {extractedTypes[i].id : i \in DOMAIN extractedTypes}
         /\ program' = program \o [i \in DOMAIN extractedTypes |->
                                     ExtractedDecl(extractedTypes[i].id, extractedTypes[i].fp,
                                       generateExtractedTypeTsType(extractedTypes[i].typeNode,
                                                                   extractedTypes[i].fp,
                                                                   LoweringContext(installed)))]
  /\ pc' = "lower"
  /\ UNCHANGED <<fpVars, regVars, extVars, rejection, options, srcPos, srcState, collectedModules, evaluatedModules, events>>

\* phase 3: one iteration of the outer loop of generateEvaluatedModules
GenerateModule ==
  /\ pc = "lower"
  /\ Len(evaluatedModules) < Len(collectedModules)
  /\ LET collectedModule == collectedModules[Len(evaluatedModules) + 1]
         acc == LowerQueries(collectedModule.queries, 1,
                             [queries |-> <<>>, currentIdentifiers |-> currentIdentifiers,
                              arrayOfUsed |-> stg.arrayOfUsed])
         evaluatedModule == [filename |-> collectedModule.filename,
                             errors |-> collectedModule.errors,
                             queries |-> acc.queries]
     IN  /\ currentIdentifiers' = acc.currentIdentifiers
         /\ stg' = [stg EXCEPT !.arrayOfUsed = acc.arrayOfUsed]
         /\ evaluatedModules' = Append(evaluatedModules, evaluatedModule)
         /\ events' = EmitEvaluatedModule(events, evaluatedModule)
  /\ UNCHANGED <<fpVars, regVars, extVars, rejection, options, pc, srcPos, srcState, collectedModules, allTypeNodes, program>>

\* the end of generateEvaluatedModules and generateTypes up to the await of
\* getQueryMapDeclaration: the stream is ended, ArrayOf and the query
\* declarations are appended
FinishLowering ==
  /\ pc = "lower"
  /\ Len(evaluatedModules) = Len(collectedModules)
  /\ events' = LET ended == Report(events, Event("evaluatedModulesEnd", ""))
               IN  IF ~options.hasQueries
                   THEN Report(ended, Event("evaluatedModulesEnd", ""))
                   ELSE ended
  /\ LET evaluated == FlatQueries(evaluatedModules) IN
     program' = program \o
       TailDeclarations(IF isArrayOfUsed(stg) THEN <<Decl("arrayOf", ARRAY_OF)>> ELSE <<>>,
                        [i \in DOMAIN evaluated |-> Decl("query", evaluated[i].id)])
  /\ pc' = "map"
  /\ UNCHANGED <<fpVars, regVars, extVars, rejection, options, srcPos, srcState, collectedModules, allTypeNodes,
                 currentIdentifiers, stg, evaluatedModules>>

\* getQueryMapDeclaration resolves: the map is appended and reported
QueryMap ==
  /\ pc = "map"
  /\ IF QueryMapThrows(evaluatedModules, options.overloadClientMethods)
     THEN /\ pc' = "rejectedMap"
          /\ rejection' = [name |-> "TypeError", detail |-> <<>>]
          /\ UNCHANGED <<program, events>>
     ELSE /\ program' = program \o getQueryMapDeclaration(evaluatedModules,
                                                          options.overloadClientMethods)
          /\ events' = Report(events, Event("generatedQueryTypes", ""))
          /\ pc' = "done"
          /\ rejection' = rejection
  /\ UNCHANGED <<fpVars, regVars, extVars, options, srcPos, srcState, collectedModules, allTypeNodes,
                 currentIdentifiers, stg, evaluatedModules>>

Next ==
  \/ GenStart
  \/ CollectModule
  \/ SourceThrows
  \/ CollectDone
  \/ BuildRegistry
  \/ GenerateModule
  \/ FinishLowering
  \/ QueryMap

Spec == Init /\ [][Next]_vars

(***************************************************************************)
(* Claims on generateTypes                                                 *)
(***************************************************************************)
NoDuplicates(seq) == \A i, j \in DOMAIN seq : seq[i] = seq[j] => i = j

Sections(decls) == [i \in DOMAIN decls |-> decls[i].section]

HasSection(section) == \E i \in DOMAIN program : program[i].section = section

CountSection(section) == Cardinality({i \in DOMAIN program : program[i].section = section})

SucceedingQueries(queries) == SelectSeq(queries, LAMBDA q : ~q.throws)
ThrowingQueries(queries) == SelectSeq(queries, LAMBDA q : q.throws)

Variables(queries) == [i \in DOMAIN queries |-> queries[i].variable]

GeneratedIdentifiers ==
  stg.identifiers
  \o [i \in DOMAIN stg.deduplicationRegistry |-> stg.deduplicationRegistry[i].id]
  \o [i \in DOMAIN FlatQueries(evaluatedModules) |-> FlatQueries(evaluatedModules)[i].id]

\* C5: in one run the identifiers of the schema types, of the deduplicated
\* shared types and of the query results are pairwise distinct.
C5_AllIdentifiersDistinct == NoDuplicates(GeneratedIdentifiers)

\* witness: schema names that take InlineItem and QueryFooResult, a shared type
\* pushed to InlineItem_2, and the variable queryFoo in two files pushed to
\* QueryFooResult_2 and QueryFooResult_3
C5_Witness ==
  /\ pc = "done"
  /\ options.schema = SchemaClash
  /\ \E i \in DOMAIN stg.deduplicationRegistry :
       stg.deduplicationRegistry[i].id = INLINE_ITEM \o <<"_", "2">>
  /\ \E i, j \in DOMAIN program :
       /\ program[i] = Decl("query", QUERY_FOO_RESULT_N(2))
       /\ program[j] = Decl("query", QUERY_FOO_RESULT_N(3))

AllQueriesEvaluated ==
  /\ Len(collectedModules) = Len(options.queries)
  /\ \A k \in DOMAIN collectedModules :
       /\ Variables(collectedModules[k].queries)
            = Variables(SucceedingQueries(options.queries[k].queries))
       /\ Len(collectedModules[k].errors)
            = Len(options.queries[k].errors) + Len(ThrowingQueries(options.queries[k].queries))

\* C6: the registry is built only after the query source has been drained and
\* every query of every module evaluated, and nothing is lowered (no evaluated
\* module, no extracted or query declaration) before the registry is installed.
C6_StrictPhases ==
  /\ stg.registryInstalled => (srcPos = Len(options.queries) /\ AllQueriesEvaluated)
  /\ (evaluatedModules # <<>> \/ HasSection("extracted") \/ HasSection("query"))
       => stg.registryInstalled
  /\ pc \in {"lower", "map", "done"} => stg.registryInstalled

\* witness: a finished run over two modules with an extracted and a query declaration
C6_Witness ==
  /\ pc = "done"
  /\ Len(options.queries) = 2
  /\ HasSection("extracted")
  /\ HasSection("query")

EvaluationErrors(errors) == SelectSeq(errors, LAMBDA e : e.kind = "QueryEvaluationError")

\* C7: a query whose evaluation throws is recorded as a QueryEvaluationError
\* (file and variable) in its module's error list and nowhere else; every other
\* query of every module is collected, and in a finished run declared; the
\* failed query is neither collected for fingerprinting nor declared.
C7_QueryErrorsAreCollected ==
  /\ \A k \in DOMAIN collectedModules :
       LET source == options.queries[k] IN
       /\ collectedModules[k].filename = source.filename
       /\ Variables(collectedModules[k].queries)
            = Variables(SucceedingQueries(source.queries))
       /\ collectedModules[k].errors
            = source.errors
              \o [i \in DOMAIN ThrowingQueries(source.queries) |->
                    [kind |-> "QueryEvaluationError", filename |-> source.filename,
                     variable |-> ThrowingQueries(source.queries)[i].variable]]
  /\ pc = "done" =>
       /\ Len(evaluatedModules) = Len(options.queries)
       /\ \A k \in DOMAIN evaluatedModules :
            /\ Variables(evaluatedModules[k].queries)
                 = Variables(SucceedingQueries(options.queries[k].queries))
            /\ evaluatedModules[k].errors = collectedModules[k].errors
       /\ allTypeNodes = TypeNodesOf(SucceedingQueries(FlatQueries(options.queries)))
       /\ CountSection("query") = Len(SucceedingQueries(FlatQueries(options.queries)))
       /\ \A i \in DOMAIN program :
            program[i].section = "query" =>
              \E k \in DOMAIN evaluatedModules :
                \E j \in DOMAIN evaluatedModules[k].queries :
                  evaluatedModules[k].queries[j].id = program[i].id

\* witness: a finished run whose first module holds a failing query followed by a
\* good one, and whose second module is declared as well
C7_Witness ==
  /\ pc = "done"
  /\ options.queries = <<ModuleMixed, ModuleFoo>>
  /\ Len(EvaluationErrors(evaluatedModules[1].errors)) = 1
  /\ Len(evaluatedModules[1].queries) = 1
  /\ Len(evaluatedModules[2].queries) = 1
  /\ CountSection("query") = 2

\* C8 (as claimed): a query source that errors after having yielded modules does
\* not fail the run.
C8_SourceErrorKeepsPartialResult ==
  (srcState = "threw" /\ srcPos >= 1) => pc # "rejectedSource"

\* C8 (amended): a source that completes, however few modules it yielded, gets
\* all its collected queries declared; a source that throws rejects the run and
\* nothing collected is lowered or declared.
C8_SourceErrorRejects ==
  /\ srcState = "threw" =>
       /\ pc = "rejectedSource"
       /\ ~stg.registryInstalled
       /\ evaluatedModules = <<>>
       /\ ~HasSection("extracted") /\ ~HasSection("query")
       /\ ~HasSection("declareModule")
  /\ pc = "done" =>
       /\ srcState = "completed"
       /\ Len(evaluatedModules) = srcPos
       /\ CountSection("query") = Len(FlatQueries(collectedModules))

\* witness: the source throws after a module with a successfully evaluated query
C8_Witness ==
  /\ srcState = "threw"
  /\ srcPos >= 1
  /\ FlatQueries(collectedModules) # <<>>
  /\ pc = "rejectedSource"

ClaimedRank(section) ==
  CASE section = "schema" -> 1
    [] section = "allSchemaTypes" -> 2
    [] section = "referenceSymbol" -> 3
    [] section = "arrayOf" -> 4
    [] section = "extracted" -> 5
    [] section = "query" -> 6
    [] section = "import" -> 7
    [] section = "declareModule" -> 8

ActualRank(section) ==
  CASE section = "schema" -> 1
    [] section = "allSchemaTypes" -> 2
    [] section = "referenceSymbol" -> 3
    [] section = "extracted" -> 4
    [] section = "arrayOf" -> 5
    [] section = "query" -> 6
    [] section = "import" -> 7
    [] section = "declareModule" -> 8

\* C9 (as claimed): schema types, union, reference symbol, ArrayOf, shared
\* inline types, query results, query map, in this order.
C9_SectionOrder ==
  pc = "done" =>
    \A i, j \in DOMAIN program :
      i < j => ClaimedRank(program[i].section) <= ClaimedRank(program[j].section)

\* C9 (amended): schema types, union, reference symbol, shared inline types,
\* ArrayOf, query results, query map, in this order; the union and the symbol
\* appear exactly once, ArrayOf and the map at most once.
C9_SectionOrderActual ==
  pc = "done" =>
    /\ \A i, j \in DOMAIN program :
         i < j => ActualRank(program[i].section) <= ActualRank(program[j].section)
    /\ CountSection("schema") = Len(options.schema)
    /\ CountSection("allSchemaTypes") = 1
    /\ CountSection("referenceSymbol") = 1
    /\ CountSection("arrayOf") <= 1
    /\ CountSection("declareModule") <= 1
    /\ CountSection("import") = CountSection("declareModule")

\* witness: a finished run whose output has every section
C9_Witness ==
  /\ pc = "done"
  /\ HasSection("schema")
  /\ HasSection("arrayOf")
  /\ HasSection("extracted")
  /\ HasSection("query")
  /\ HasSection("declareModule")

NoQueryEvaluated == FlatQueries(collectedModules) = <<>>

SchemaSectionsEmitted ==
  /\ \A i \in DOMAIN options.schema : program[i] = Decl("schema", stg.identifiers[i])
  /\ Len(stg.identifiers) = Len(options.schema)
  /\ HasSection("allSchemaTypes")
  /\ HasSection("referenceSymbol")

C13_DuplicateSchemaIsFatal ==
  /\ (HasDuplicateTypeName(options.schema) /\ pc # "start") =>
       /\ pc = "rejectedSchema"
       /\ rejection.name = "Error"
       /\ \E i, j \in DOMAIN options.schema :
            i # j /\ options.schema[i].name = rejection.detail
                  /\ options.schema[j].name = rejection.detail
       /\ program = <<>>
       /\ events = <<>>
       /\ srcPos = 0 /\ srcState = "open"
       /\ collectedModules = <<>> /\ evaluatedModules = <<>>
  /\ pc = "rejectedSchema" => HasDuplicateTypeName(options.schema)

\* witness: a rejected run with a reporter attached and a query source that
\* would have yielded modules
C13_Witness ==
  /\ pc = "rejectedSchema"
  /\ options.schema = SchemaDuplicate
  /\ options.reporter
  /\ Len(options.queries) = 2
  /\ rejection.detail = NAME_FOO

\* the notifications of the run without the end-of-stream markers
Notifications == SelectSeq(events, LAMBDA e : e.kind # "evaluatedModulesEnd")

\* the k-th notification a complete run over options.queries has to emit
ExpectedNotificationKind(k) ==
  IF k = 1 THEN "generatedSchemaTypes"
  ELSE IF k <= Len(options.queries) + 1 THEN "evaluatedModule"
  ELSE "generatedQueryTypes"

\* C15: with a reporter attached, the notifications of a run are emitted in
\* this order: the schema-types event first, then one evaluated-module item per
\* module yielded by the query source, in source order, modules without queries
\* or with only extraction errors included (their errors passed through
\* unchanged), then the query-types event last.
C15_NotificationOrder ==
  options.reporter =>
    /\ Len(Notifications) <= Len(options.queries) + 2
    /\ \A k \in DOMAIN Notifications :
         /\ Notifications[k].kind = ExpectedNotificationKind(k)
         /\ Notifications[k].kind = "evaluatedModule" =>
              /\ Notifications[k].filename = options.queries[k - 1].filename
              /\ Len(options.queries[k - 1].queries) = 0 =>
                   Notifications[k].errors = options.queries[k - 1].errors
    /\ pc \in {"registry", "lower"} => Len(Notifications) = 1 + Len(evaluatedModules)
    /\ pc = "map" => Len(Notifications) = 1 + Len(options.queries)
    /\ pc = "done" => Len(Notifications) = Len(options.queries) + 2

\* a reported run has finished over a module without queries that carries an
\* extraction error, followed by a module with queries
C15_Witness ==
  /\ options.reporter
  /\ pc = "done"
  /\ Len(options.queries) = 2
  /\ options.queries[1] = ModuleHasAnError
  /\ options.queries[2] = ModuleMixed
  /\ Notifications[2].errors = ModuleHasAnError.errors
  /\ Notifications[4].kind = "generatedQueryTypes"

(***************************************************************************)
(* SpecMap: one getQueryMapDeclaration call, its grouping loop step by step *)
(***************************************************************************)
MaxMapQueries == 3

GROQ_EVERYTHING == <<"*">>
GROQ_ONE == <<"1">>
GROQ_TWO == <<"2">>
GROQ_TEN == <<"1", "0">>
GROQ_TITLE == <<"t", "i", "t", "l", "e">>
GROQ_CONSTRUCTOR == <<"c", "o", "n", "s", "t", "r", "u", "c", "t", "o", "r">>

MapQueryStrings ==
  {GROQ_EVERYTHING, GROQ_ONE, GROQ_TWO, GROQ_TEN, GROQ_TITLE, GROQ_CONSTRUCTOR}

\* the k-th evaluated query of a run: its identifier is unique in the run
MapQuery(k, query) == [id |-> <<"R">> \o NumToStr(k), query |-> query]

\* the evaluated modules of a run: the given query strings, the first `split`
\* of them in one module and the others in a second one
MapModulesOf(strings, split) ==
  <<[filename |-> "a.ts", errors |-> <<>>,
     queries |-> [k \in 1..split |-> MapQuery(k, strings[k])]],
    [filename |-> "b.ts", errors |-> <<>>,
     queries |-> [k \in 1..(Len(strings) - split) |-> MapQuery(split + k, strings[split + k])]]>>

InitMap ==
  /\ FpIdle
  /\ RegIdle
  /\ GenIdle
  /\ MemoIdle
  /\ MoreIdle
  /\ \E n \in 0..MaxMapQueries :
       \E strings \in [1..n -> MapQueryStrings] :
         \E split \in 0..n :
           mapModules = MapModulesOf(strings, split)
  /\ mapOverload \in BOOLEAN
  /\ typesByQuerystring = <<>>
  /\ mapThrew = FALSE
  /\ mapIdx = 0
  /\ mapPc = "start"
  /\ mapResult = <<>>

\* the two early returns of getQueryMapDeclaration, or the entry into the loop
MapEnter ==
  /\ mapPc = "start"
  /\ IF ~mapOverload \/ Len(FlatQueries(mapModules)) = 0
     THEN mapPc' = "done" /\ mapIdx' = mapIdx
     ELSE mapPc' = "group" /\ mapIdx' = 1
  /\ UNCHANGED <<fpVars, regVars, genVars, memoVars, moreVars, mapModules, mapOverload, typesByQuerystring,
                 mapThrew, mapResult>>

\* one iteration of the grouping loop
MapGroup ==
  /\ mapPc = "group"
  /\ mapIdx <= Len(FlatQueries(mapModules))
  /\ LET evaluatedQuery == FlatQueries(mapModules)[mapIdx] IN
     IF GetsInheritedValue(typesByQuerystring, evaluatedQuery.query)
     THEN /\ mapThrew' = TRUE
          /\ mapPc' = "threw"
          /\ UNCHANGED <<typesByQuerystring, mapIdx>>
     ELSE /\ typesByQuerystring' = GroupQuery(typesByQuerystring, evaluatedQuery)
          /\ mapIdx' = mapIdx + 1
          /\ UNCHANGED <<mapThrew, mapPc>>
  /\ UNCHANGED <<fpVars, regVars, genVars, memoVars, moreVars, mapModules, mapOverload, mapResult>>

\* Object.entries(typesByQuerystring).map(...): one property signature per own
\* property, in enumeration order
MapReturn ==
  /\ mapPc = "group"
  /\ mapIdx > Len(FlatQueries(mapModules))
  /\ mapResult' = typesByQuerystring
  /\ mapPc' = "done"
  /\ UNCHANGED <<fpVars, regVars, genVars, memoVars, moreVars, mapModules, mapOverload, typesByQuerystring,
                 mapThrew, mapIdx>>

NextMap == MapEnter \/ MapGroup \/ MapReturn

SpecMap == InitMap /\ [][NextMap]_vars

(***************************************************************************)
(* Claims on the query map                                                 *)
(***************************************************************************)
\* the distinct query strings of a list of queries, in first-occurrence order
RECURSIVE FirstOccurrences(_, _)
FirstOccurrences(queries, seen) ==
  IF queries = <<>> THEN <<>>
  ELSE IF Head(queries).query \in seen THEN FirstOccurrences(Tail(queries), seen)
  ELSE <<Head(queries).query>>
       \o FirstOccurrences(Tail(queries), seen \cup {Head(queries).query})

IdsOfQuery(queries, query) ==
  LET same == SelectSeq(queries, LAMBDA q : q.query = query)
  IN  [i \in DOMAIN same |-> same[i].id]

ExpectedMapEntries(queries) ==
  LET keys == FirstOccurrences(queries, {})
  IN  [i \in DOMAIN keys |-> [key |-> keys[i], types |-> IdsOfQuery(queries, keys[i])]]

\* C11: with the map enabled and at least one evaluated query, the call returns
\* a map with exactly one entry per distinct query string, in first-occurrence
\* order, whose value names the identifiers of all queries with that string.
C11_OneEntryPerQueryString ==
  (mapOverload /\ FlatQueries(mapModules) # <<>> /\ mapPc \in {"done", "threw"}) =>
    /\ mapPc = "done"
    /\ mapResult = ExpectedMapEntries(FlatQueries(mapModules))

(***************************************************************************)
(* SpecMemo: successive generateTypes calls on one TypeGenerator, as far   *)
(* as the memoized selectors getSchemaTypeGenerator and                    *)
(* getSchemaTypeDeclarations are concerned.  Objects are identified by the *)
(* order of their allocation; a schema value is [ref, content], two values *)
(* are the same value iff their refs are equal.  createSelector (reselect) *)
(* compares inputs by reference and keeps either the last entry only       *)
(* (lruMemoize, size 1) or every entry (weakMapMemoize), depending on the  *)
(* reselect version the build resolves.                                    *)
(***************************************************************************)
MaxCalls == 3

SchemaA == [ref |-> "schema", content |-> "A"]
SchemaACopy == [ref |-> "copyOfSchema", content |-> "A"]
SchemaB == [ref |-> "otherSchema", content |-> "B"]
SchemaWithDuplicate == [ref |-> "duplicateSchema", content |-> "duplicate"]

MemoSchemas == {SchemaA, SchemaACopy, SchemaB, SchemaWithDuplicate}
MemoRoots == {"undefined", "/test-root"}
MemoSchemaPaths == {"undefined", "schema.json"}

NoObject == 0

\* a memoized function call: the cached value on a hit, else a freshly
\* allocated object that is cached under `key`
CacheHit(cache, key) == \E e \in cache : e.key = key

CachedValue(cache, key) == (CHOOSE e \in cache : e.key = key).value

CacheAfterMiss(cache, key, value) ==
  IF memoize = "lruMemoize" THEN {[key |-> key, value |-> value]}
  ELSE cache \cup {[key |-> key, value |-> value]}

\* the input selector of getSchemaTypeGenerator: options.schema, by reference
SchemaTypeGeneratorInputs(opts) == <<opts.schema.ref>>

\* variant of the input selectors of getSchemaTypeDeclarations without the
\* schema type generator
SchemaTypeDeclarationsInputsNoSchema(opts, schemaTypeGenerator) ==
  <<opts.root, opts.schemaPath, NoObject>>

\* the input selectors of getSchemaTypeDeclarations: options.root,
\* options.schemaPath and the result of getSchemaTypeGenerator
SchemaTypeDeclarationsInputs(opts, schemaTypeGenerator) ==
  <<opts.root, opts.schemaPath, schemaTypeGenerator>>

InitMemo ==
  /\ FpIdle
  /\ RegIdle
  /\ GenIdle
  /\ MapIdle
  /\ MoreIdle
  /\ memoize \in {"lruMemoize", "weakMapMemoize"}
  /\ memoHeap = 0
  /\ schemaTypeGeneratorCache = {}
  /\ schemaTypeDeclarationsCache = {}
  /\ memoCalls = <<>>

\* generateTypes(opts) with a schema that has a duplicate type name: the
\* constructor of SchemaTypeGenerator throws inside the selector, nothing is
\* cached and nothing is reported
GenerateTypesRejected ==
  /\ Len(memoCalls) < MaxCalls
  /\ \E root \in MemoRoots, schemaPath \in MemoSchemaPaths :
       memoCalls' = Append(memoCalls,
                           [schema |-> SchemaWithDuplicate, root |-> root,
                            schemaPath |-> schemaPath, schemaTypeGenerator |-> NoObject,
                            schemaTypeDeclarations |-> NoObject])
  /\ UNCHANGED <<fpVars, regVars, genVars, mapVars, moreVars, memoize, memoHeap,
                 schemaTypeGeneratorCache, schemaTypeDeclarationsCache>>

\* generateTypes(opts) up to report.event.generatedSchemaTypes: the two
\* selectors are evaluated and the table is reported
GenerateTypesMemoized ==
  /\ Len(memoCalls) < MaxCalls
  /\ \E schema \in MemoSchemas \ {SchemaWithDuplicate},
        root \in MemoRoots, schemaPath \in MemoSchemaPaths :
       LET opts == [schema |-> schema, root |-> root, schemaPath |-> schemaPath]
           generatorKey == SchemaTypeGeneratorInputs(opts)
           generatorHit == CacheHit(schemaTypeGeneratorCache, generatorKey)
           generator == IF generatorHit
                        THEN CachedValue(schemaTypeGeneratorCache, generatorKey)
                        ELSE memoHeap + 1
           heap == IF generatorHit THEN memoHeap ELSE memoHeap + 1
           tableKey == SchemaTypeDeclarationsInputs(opts, generator)
           tableHit == CacheHit(schemaTypeDeclarationsCache, tableKey)
           table == IF tableHit
                    THEN CachedValue(schemaTypeDeclarationsCache, tableKey)
                    ELSE heap + 1
       IN  /\ schemaTypeGeneratorCache' =
                IF generatorHit THEN schemaTypeGeneratorCache
                ELSE CacheAfterMiss(schemaTypeGeneratorCache, generatorKey, generator)
           /\ schemaTypeDeclarationsCache' =
                IF tableHit THEN schemaTypeDeclarationsCache
                ELSE CacheAfterMiss(schemaTypeDeclarationsCache, tableKey, table)
           /\ memoHeap' = IF tableHit THEN heap ELSE heap + 1
           /\ memoCalls' = Append(memoCalls,
                                  [schema |-> schema, root |-> root, schemaPath |-> schemaPath,
                                   schemaTypeGenerator |-> generator,
                                   schemaTypeDeclarations |-> table])
  /\ UNCHANGED <<fpVars, regVars, genVars, mapVars, moreVars, memoize>>

NextMemo == GenerateTypesMemoized \/ GenerateTypesRejected

SpecMemo == InitMemo /\ [][NextMemo]_vars

(***************************************************************************)
(* Claims on memoization                                                   *)
(***************************************************************************)
Reported(i) == memoCalls[i].schemaTypeDeclarations # NoObject

\* C12 (as claimed): two calls with the same schema value report the identical
\* table, and two calls with different schema values report different tables.
C12_TablePerSchemaValue ==
  \A i, j \in DOMAIN memoCalls :
    (i < j /\ Reported(i) /\ Reported(j)) =>
      (memoCalls[i].schema.ref = memoCalls[j].schema.ref
         <=> memoCalls[i].schemaTypeDeclarations = memoCalls[j].schemaTypeDeclarations)

\* C12 (amended): a call that passes the same schema value, the same root and
\* the same schemaPath as the call right before it reports the identical
\* table; two calls that pass different schema values, even a shallow copy with
\* equal content, report different tables.
C12_TablePerSelectorInputs ==
  /\ \A i \in DOMAIN memoCalls :
       (i > 1 /\ Reported(i)
          /\ memoCalls[i - 1].schema.ref = memoCalls[i].schema.ref
          /\ memoCalls[i - 1].root = memoCalls[i].root
          /\ memoCalls[i - 1].schemaPath = memoCalls[i].schemaPath)
         => memoCalls[i - 1].schemaTypeDeclarations = memoCalls[i].schemaTypeDeclarations
  /\ \A i, j \in DOMAIN memoCalls :
       (Reported(i) /\ Reported(j) /\ memoCalls[i].schema.ref # memoCalls[j].schema.ref)
         => memoCalls[i].schemaTypeDeclarations # memoCalls[j].schemaTypeDeclarations

\* witness: the sequence of the memoization test: the schema twice, then its
\* shallow copy; the first two tables are identical and the third is new
C12_Witness ==
  /\ Len(memoCalls) = 3
  /\ memoCalls[1].schema = SchemaA /\ memoCalls[2].schema = SchemaA
  /\ memoCalls[3].schema = SchemaACopy
  /\ memoCalls[1].schemaTypeDeclarations = memoCalls[2].schemaTypeDeclarations
  /\ memoCalls[3].schemaTypeDeclarations # memoCalls[2].schemaTypeDeclarations
  /\ Reported(1) /\ Reported(3)

(***************************************************************************)
(* SpecLower: phases 2 and 3 of generateTypes as far as the lowered types  *)
(* are concerned: the registry is built from the TypeNodes of the queries, *)
(* handed to the generator, and every registry entry and every query is    *)
(* lowered with it                                                         *)
(***************************************************************************)
MaxLowerQueries == 2

Outer == Obj(<<Attr(KEY_ITEM, FALSE, PointS), Attr(KEY_X, FALSE, NumNode)>>)
RestHost == ObjectNode(<<Attr(KEY_TITLE, TRUE, StrNode)>>, PointS, <<>>)
OpenPoint ==
  ObjectNode(<<Attr(KEY_X, FALSE, NumNode), Attr(KEY_Y, FALSE, NumNode)>>, UnknownNode, <<>>)
PointsOrNull == ArrayNode(UnionNode(<<PointS, NullNode>>))
FooWithPoint ==
  ObjectNode(<<Attr(KEY_ITEM, FALSE, PointS), Attr(KEY_Y, FALSE, UnionNode(<<>>))>>,
             InlineNode(NAME_FOO), <<>>)

LowerPool == {PointS, Outer, RestHost, OpenPoint, PointsOrNull, FooWithPoint}

InitLower ==
  /\ FpIdle
  /\ RegIdle
  /\ GenIdle
  /\ MapIdle
  /\ MemoIdle
  /\ LateIdle
  /\ IdIdle
  /\ SingIdle
  /\ RunIdle
  /\ StatIdle
  /\ lowSchema \in {<<>>, SchemaFooBar}
  /\ \E n \in 1..MaxLowerQueries : lowTypeNodes \in [1..n -> LowerPool]
  /\ lowRegistry = <<>>
  /\ lowProgram = <<>>
  /\ lowPc = "registry"

\* what the generator lowers with: its schema, its identifiers and the
\* registry it was handed
LowerContext ==
  [schema |-> lowSchema, identifiers |-> SchemaIdentifiers(lowSchema),
   registry |-> lowRegistry, self |-> <<>>]

QueryDecl(tsType) == [section |-> "query", tsType |-> tsType]

LoweredQueries == SelectSeq(lowProgram, LAMBDA d : d.section = "query")

\* phase 2 of generateTypes
LowerBuildRegistry ==
  /\ lowPc = "registry"
  /\ LET fingerprints == collectObjectFingerprints(lowTypeNodes)
         extractedTypes ==
           buildDeduplicationRegistry(fingerprints, Range(SchemaIdentifiers(lowSchema)))
         installed == RegistryHandedToGenerator(extractedTypes)
     IN  /\ lowRegistry' = installed
         /\ lowProgram' =
              [i \in DOMAIN extractedTypes |->
                 ExtractedDecl(extractedTypes[i].id, extractedTypes[i].fp,
                   generateExtractedTypeTsType(extractedTypes[i].typeNode, extractedTypes[i].fp,
                                               [LowerContext EXCEPT !.registry = installed]))]
  /\ lowPc' = "lower"
  /\ UNCHANGED <<fpVars, regVars, genVars, mapVars, memoVars, lateVars, idVars, singVars, runVars, statVars, lowSchema, lowTypeNodes>>

\* phase 3: schemaTypeGenerator.generateQueryTsType for the next query
LowerQuery ==
  /\ lowPc = "lower"
  /\ Len(LoweredQueries) < Len(lowTypeNodes)
  /\ lowProgram' =
       Append(lowProgram,
              QueryDecl(generateQueryTsType(lowTypeNodes[Len(LoweredQueries) + 1], LowerContext)))
  /\ UNCHANGED <<fpVars, regVars, genVars, mapVars, memoVars, lateVars, idVars, singVars, runVars, statVars, lowSchema, lowTypeNodes,
                 lowRegistry, lowPc>>

\* the loop over the queries is exhausted
LowerDone ==
  /\ lowPc = "lower"
  /\ Len(LoweredQueries) = Len(lowTypeNodes)
  /\ lowPc' = "done"
  /\ UNCHANGED <<fpVars, regVars, genVars, mapVars, memoVars, lateVars, idVars, singVars, runVars, statVars, lowSchema, lowTypeNodes,
                 lowRegistry, lowProgram>>

NextLower == LowerBuildRegistry \/ LowerQuery \/ LowerDone

SpecLower == InitLower /\ [][NextLower]_vars

(***************************************************************************)
(* Claims on lowering with the registry                                    *)
(***************************************************************************)
ExtractedDecls == SelectSeq(lowProgram, LAMBDA d : d.section = "extracted")

\* the keys of the registry, read off the emitted declarations
RegistryKeys == {ExtractedDecls[i].fp : i \in DOMAIN ExtractedDecls}

IdentifierOfKey(fp) ==
  ExtractedDecls[CHOOSE i \in DOMAIN ExtractedDecls : ExtractedDecls[i].fp = fp].id

\* inside tsType, every lowered object whose fingerprint is a registry key is
\* a reference to that entry's identifier; with `strict`, no registry shape
\* was merged into a type literal either
RECURSIVE RegistryShapesAreReferences(_, _)
RegistryShapesAreReferences(tsType, strict) ==
  CASE tsType.ts = "typeLiteral" ->
         /\ tsType.fp \notin RegistryKeys
         /\ strict => tsType.flattened \cap RegistryKeys = {}
         /\ \A i \in DOMAIN tsType.members :
              RegistryShapesAreReferences(tsType.members[i].type, strict)
    [] tsType.ts = "unknown" -> tsType.fp \notin RegistryKeys
    [] tsType.ts = "reference" ->
         tsType.fp # <<>> => /\ tsType.fp \in RegistryKeys
                             /\ tsType.id = IdentifierOfKey(tsType.fp)
    [] tsType.ts \in {"array", "arrayOf"} -> RegistryShapesAreReferences(tsType.of, strict)
    [] tsType.ts \in {"union", "intersection"} ->
         \A i \in DOMAIN tsType.types : RegistryShapesAreReferences(tsType.types[i], strict)
    [] OTHER -> TRUE

\* the body of an extracted declaration is the shape of its own object:
\* `structural` demands a type literal, otherwise the `unknown` an object
\* with an unknown rest degrades to is a shape too
IsOwnShape(decl, structural) ==
  LET literal == IF decl.tsType.ts = "intersection" THEN decl.tsType.types[1] ELSE decl.tsType
  IN  /\ literal.fp = decl.fp
      /\ \/ literal.ts = "typeLiteral"
         \/ ~structural /\ literal.ts = "unknown"

\* the types nested in the body of an extracted declaration
NestedTypes(decl) ==
  LET literal == IF decl.tsType.ts = "intersection" THEN decl.tsType.types[1] ELSE decl.tsType
  IN  IF literal.ts = "typeLiteral"
      THEN [i \in DOMAIN literal.members |-> literal.members[i].type]
      ELSE <<>>

FlattenedInto(decl) ==
  LET literal == IF decl.tsType.ts = "intersection" THEN decl.tsType.types[1] ELSE decl.tsType
  IN  IF literal.ts = "typeLiteral" THEN literal.flattened ELSE {}

IsRegistryReference(tsType) == tsType.ts = "reference" /\ tsType.fp \in RegistryKeys

MaxIdLen == 3
MaxIdCalls == 2

IdAlphabet == {"a", "1", "-"}

IdNames == UNION {[1..n -> IdAlphabet] : n \in 0..MaxIdLen}

InitId ==
  /\ FpIdle
  /\ RegIdle
  /\ GenIdle
  /\ MapIdle
  /\ MemoIdle
  /\ LateIdle
  /\ LowIdle
  /\ SingIdle
  /\ RunIdle
  /\ StatIdle
  /\ idIdentifiers = {}
  /\ idCalls = <<>>

\* getUniqueIdentifierForName(name, currentIdentifiers) followed by
\* currentIdentifiers.add(id.name)
IdResolve ==
  /\ Len(idCalls) < MaxIdCalls
  /\ \E name \in IdNames :
       LET id == getUniqueIdentifierForName(name, idIdentifiers) IN
       /\ idCalls' = Append(idCalls, [name |-> name, id |-> id])
       /\ idIdentifiers' = idIdentifiers \cup {id}
  /\ UNCHANGED <<fpVars, regVars, genVars, mapVars, memoVars, lateVars, lowVars, singVars, runVars, statVars>>

NextId == IdResolve

SpecId == InitId /\ [][NextId]_vars

(***************************************************************************)
(* Claims on the sanitizer                                                 *)
(***************************************************************************)

\* C16: for every input string, the empty string, a string made only of
\* separators and a string that ends with a separator run included, the
\* identifier returned by getUniqueIdentifierForName is a non-empty valid
\* identifier: it starts with a letter, _ or $ and holds only letters, digits,
\* _ and $.
C16_AlwaysValidIdentifier ==
  \A i \in DOMAIN idCalls : isIdentifierName(idCalls[i].id)

(***************************************************************************)
(* SpecSing: singularize is called on one word                             *)
(***************************************************************************)
MaxStemLen == 2

SingStems == UNION {[1..n -> {"a", "z", "s"}] : n \in 0..MaxStemLen}

SingEndings ==
  {<<>>, <<"s">>, <<"s", "s">>, <<"e", "s">>, <<"i", "e", "s">>, <<"z", "e", "s">>,
   <<"z", "z", "e", "s">>, <<"s", "s", "e", "s">>, <<"s", "h", "e", "s">>,
   <<"c", "h", "e", "s">>, <<"x", "e", "s">>, <<"y">>, <<"x">>}

SingWords == {stem \o ending : stem \in SingStems, ending \in SingEndings}

InitSing ==
  /\ FpIdle
  /\ RegIdle
  /\ GenIdle
  /\ MapIdle
  /\ MemoIdle
  /\ LateIdle
  /\ LowIdle
  /\ IdIdle
  /\ RunIdle
  /\ StatIdle
  /\ singName \in SingWords
  /\ singResult = <<>>
  /\ singPc = "call"

Singularize ==
  /\ singPc = "call"
  /\ singResult' = singularize(singName)
  /\ singPc' = "returned"
  /\ UNCHANGED <<fpVars, regVars, genVars, mapVars, memoVars, lateVars, lowVars, idVars, runVars, statVars, singName>>

NextSing == Singularize

SpecSing == InitSing /\ [][NextSing]_vars

(***************************************************************************)
(* Claims on singularize                                                   *)
(***************************************************************************)
IES == <<"i", "e", "s">>
ZZES == <<"z", "z", "e", "s">>
SibilantEndings ==
  {<<"s", "s", "e", "s">>, <<"s", "h", "e", "s">>, <<"c", "h", "e", "s">>, <<"x", "e", "s">>}
ZES == <<"z", "e", "s">>

\* the rule list of the claim, first match wins, with `endings` as the
\* endings of rule (2) that lose their 'es'
RuleList(word, endings) ==
  IF endsWith(word, IES) /\ Len(word) > 3 THEN DropLast(word, 3) \o <<"y">>
  ELSE IF endsWith(word, ZZES) /\ Len(word) > 4 THEN DropLast(word, 3)
  ELSE IF \E ending \in endings : endsWith(word, ending) THEN DropLast(word, 2)
  ELSE IF endsWith(word, <<"s">>) /\ ~endsWith(word, <<"s", "s">>) /\ Len(word) > 2
    THEN DropLast(word, 1)
  ELSE word

\* C17 (as stated): singularize applies, first match wins: (1) 'ies' and
\* length > 3: 'ies' becomes 'y'; (2) 'zzes' and length > 4: drop 3 characters,
\* otherwise 'sses', 'shes', 'ches', 'xes' or 'zes': drop 'es'; (3) 's', not
\* 'ss', length > 2: drop 's'; (4) otherwise the word is returned unchanged.
C17_RulesWithZes ==
  singPc = "returned" => singResult = RuleList(singName, SibilantEndings \cup {ZES})

\* C17 (amended): the same rule list, but rule (2) drops 'es' only after
\* 'sses', 'shes', 'ches' and 'xes': a word in 'zes' that is not a doubled-z
\* plural longer than 4 falls to rule (3) and loses its 's' only.
C17_RulesWithoutZes ==
  singPc = "returned" => singResult = RuleList(singName, SibilantEndings)

\* singularize has returned for a word in 'zes' that is no doubled-z plural
C17_Witness ==
  /\ singPc = "returned"
  /\ singName = <<"a", "z", "e", "s">>
  /\ singResult = <<"a", "z", "e">>

(***************************************************************************)
(* SpecRun: createTypegenRunner (typegenWatch.ts).  runGeneration is       *)
(* called from outside at any time; an onGenerate invocation is in flight  *)
(* from its call until its promise settles; the finally block of the       *)
(* activation that awaits it runs in a later job.                          *)
(***************************************************************************)
MaxRunCalls == 6

InitRun ==
  /\ FpIdle
  /\ RegIdle
  /\ GenIdle
  /\ MapIdle
  /\ MemoIdle
  /\ LateIdle
  /\ LowIdle
  /\ IdIdle
  /\ SingIdle
  /\ StatIdle
  /\ runState = [isGenerating |-> FALSE, pendingGeneration |-> FALSE]
  /\ runActivations = <<>>
  /\ runCalls = 0
  /\ runStarted = 0
  /\ runQueued = 0
  /\ runFinished = 0
  /\ runPromises = <<>>

\* variant of the guard that lets every call through
NeverGenerating(state) == FALSE

\* if (state.isGenerating)
IsGenerating(state) == state.isGenerating

\* variant that forgets the request of a call made while generating
DropRequest(state) == state

\* state.pendingGeneration = true
MarkPending(state) == [state EXCEPT !.pendingGeneration = TRUE]

\* the promise of a runGeneration call that started a generation: `parent` is
\* the activation whose finally block made the call (0 for a call from
\* outside), `own` the error its onGenerate rejected with (0 for none; the
\* error of generation i is i), `error` the error the promise rejects with
NewPromise(parent) == [parent |-> parent, own |-> 0, outcome |-> "pending", error |-> 0]

\* the async function of activation i completes: it throws the error of the
\* runGeneration call awaited in its finally block if that one rejected
\* (nestedError), else the error of its own onGenerate, else it returns; the
\* activation whose finally block awaits promise i then completes in turn
RECURSIVE SettlePromise(_, _, _)
SettlePromise(promises, i, nestedError) ==
  LET thrown == IF nestedError # 0 THEN nestedError ELSE promises[i].own
      settled == [promises EXCEPT ![i].outcome = IF thrown # 0 THEN "rejected" ELSE "resolved",
                                  ![i].error = thrown]
  IN  IF promises[i].parent = 0 THEN settled
      ELSE SettlePromise(settled, promises[i].parent, thrown)

\* variant of the finally block that leaves isGenerating set
StaysGenerating(state) == state

\* state.isGenerating = false
Release(state) == [state EXCEPT !.isGenerating = FALSE]

\* runGeneration up to its await: [state, started]
EnterRunGeneration(state) ==
  IF IsGenerating(state)
  THEN [state |-> MarkPending(state), started |-> FALSE]
  ELSE [state |-> [isGenerating |-> TRUE, pendingGeneration |-> FALSE], started |-> TRUE]

\* a file event, a debounce firing or any other caller invokes runGeneration
RunGenerationCalled ==
  /\ runCalls < MaxRunCalls
  /\ LET entered == EnterRunGeneration(runState) IN
     /\ runState' = entered.state
     /\ runActivations' = IF entered.started THEN Append(runActivations, "awaiting")
                          ELSE runActivations
     /\ runStarted' = IF entered.started THEN runStarted + 1 ELSE runStarted
     /\ runQueued' = IF entered.started THEN 0
                     ELSE IF runState.isGenerating THEN runQueued + 1 ELSE runQueued
     /\ runPromises' = IF entered.started THEN Append(runPromises, NewPromise(0))
                       ELSE runPromises
  /\ runCalls' = runCalls + 1
  /\ UNCHANGED <<fpVars, regVars, genVars, mapVars, memoVars, lateVars, lowVars, idVars, singVars, statVars,
                 runFinished>>

\* the promise of an onGenerate invocation settles
OnGenerateSettles ==
  /\ \E i \in DOMAIN runActivations :
       /\ runActivations[i] = "awaiting"
       /\ \E outcome \in {"fulfilled", "rejected"} :
            /\ runActivations' = [runActivations EXCEPT ![i] = outcome]
            /\ runPromises' = IF outcome = "rejected"
                              THEN [runPromises EXCEPT ![i].own = i]
                              ELSE runPromises
  /\ UNCHANGED <<fpVars, regVars, genVars, mapVars, memoVars, lateVars, lowVars, idVars, singVars, statVars,
                 runState, runCalls, runStarted, runQueued, runFinished>>

\* the finally block of an activation whose onGenerate has settled, with the
\* nested runGeneration call up to its await
RunFinally ==
  /\ \E i \in DOMAIN runActivations :
       /\ runActivations[i] \in {"fulfilled", "rejected"}
       /\ LET released == Release(runState)
              again == released.pendingGeneration
              entered == IF again
                         THEN EnterRunGeneration([released EXCEPT !.pendingGeneration = FALSE])
                         ELSE [state |-> released, started |-> FALSE]
              returned == [runActivations EXCEPT ![i] = "returned"]
          IN  /\ runState' = entered.state
              /\ runActivations' = IF entered.started THEN Append(returned, "awaiting")
                                   ELSE returned
              /\ runStarted' = IF entered.started THEN runStarted + 1 ELSE runStarted
              /\ runQueued' = IF entered.started THEN 0 ELSE runQueued
              /\ runPromises' = IF entered.started THEN Append(runPromises, NewPromise(i))
                                ELSE SettlePromise(runPromises, i, 0)
  /\ runFinished' = runFinished + 1
  /\ UNCHANGED <<fpVars, regVars, genVars, mapVars, memoVars, lateVars, lowVars, idVars, singVars, statVars,
                 runCalls>>

NextRun == RunGenerationCalled \/ OnGenerateSettles \/ RunFinally

SpecRun == InitRun /\ [][NextRun]_vars

\* every promise of onGenerate settles (runTypegenWatcher's callback catches
\* its errors and resolves), and a continuation that is ready runs
SpecRunFair == SpecRun /\ WF_vars(OnGenerateSettles) /\ WF_vars(RunFinally)

(***************************************************************************)
(* Claims on the watch-mode runner                                         *)
(***************************************************************************)
InFlight == {i \in DOMAIN runActivations : runActivations[i] = "awaiting"}

\* C18: for every interleaving of runGeneration calls, at most one invocation
\* of onGenerate is in flight at any time.
C18_AtMostOneInFlight == Cardinality(InFlight) <= 1

\* a call has been made while a generation was in flight, and that
\* generation is still the only one in flight
C18_Witness ==
  /\ runQueued >= 1
  /\ Cardinality(InFlight) = 1
  /\ runFinished >= 1

StartedNow == runStarted' - runStarted

\* C19: the calls made while a generation is in flight start nothing by
\* themselves; when the finally block of that generation runs, exactly one
\* further onGenerate is started if there was at least one such call and none
\* otherwise; no onGenerate starts while another is in flight; a call made
\* while idle starts one at once; and the queued generation does start.
C19_Coalescing ==
  /\ [][/\ (runCalls' # runCalls /\ runState.isGenerating) => StartedNow = 0
        /\ (runCalls' # runCalls /\ ~runState.isGenerating) => StartedNow = 1
        /\ runFinished' # runFinished => StartedNow = (IF runQueued >= 1 THEN 1 ELSE 0)
        /\ (runCalls' = runCalls /\ runFinished' = runFinished) => StartedNow = 0
        /\ StartedNow # 0 => InFlight = {}]_vars
  /\ \A n \in 0..MaxRunCalls :
       (runQueued >= 1 /\ runStarted = n) ~> (runStarted = n + 1)

\* several calls were made during one generation, and the single generation
\* they asked for is running
C19_Witness ==
  /\ runCalls = 3
  /\ runStarted = 2
  /\ runFinished = 1
  /\ runQueued = 0
  /\ Cardinality(InFlight) = 1

(***************************************************************************)
(* SpecStats: the usage statistics of one inferred type tree are computed  *)
(***************************************************************************)
OpenNested ==
  ObjectNode(<<Attr(KEY_ITEM, FALSE, PointS), Attr(KEY_X, FALSE, UnknownNode),
               Attr(KEY_Y, FALSE, UnionNode(<<>>))>>, UnknownNode, <<>>)

ClosedNested ==
  ObjectNode(<<Attr(KEY_ITEM, FALSE, PointS), Attr(KEY_X, FALSE, UnknownNode),
               Attr(KEY_Y, FALSE, UnionNode(<<>>))>>, RestHost, <<>>)

StatNodes ==
  FpNodes \cup LowerPool
    \cup {OpenNested, ClosedNested, ArrayNode(OpenNested), UnionNode(<<OpenNested, UnknownNode>>)}

InitStats ==
  /\ FpIdle
  /\ RegIdle
  /\ GenIdle
  /\ MapIdle
  /\ MemoIdle
  /\ LateIdle
  /\ LowIdle
  /\ IdIdle
  /\ SingIdle
  /\ RunIdle
  /\ statNode \in StatNodes
  /\ statResult = NoStats
  /\ statPc = "call"

WalkAndCount ==
  /\ statPc = "call"
  /\ statResult' = walkAndCountQueryTypeNodeStats(statNode)
  /\ statPc' = "returned"
  /\ UNCHANGED <<fpVars, regVars, genVars, mapVars, memoVars, lateVars, lowVars, idVars, singVars,
                 runVars, statNode>>

NextStats == WalkAndCount

SpecStats == InitStats /\ [][NextStats]_vars

(***************************************************************************)
(* Claims on the usage statistics                                          *)
(***************************************************************************)

\* the nodes below typeNode, itself included, as a sequence; with `open`, the
\* attributes of an object whose rest is unknown are walked like any other,
\* without it such an object contributes itself and its rest only
RECURSIVE NodesOf(_, _)
RECURSIVE NodesOfAll(_, _, _)
NodesOf(typeNode, open) ==
  <<typeNode>> \o
  CASE typeNode.type = "array" -> NodesOf(typeNode.of, open)
    [] typeNode.type = "union" -> NodesOfAll(typeNode.members, 1, open)
    [] typeNode.type = "object" ->
         IF ~open /\ typeNode.rest # NoNode /\ typeNode.rest.type = "unknown"
         THEN <<typeNode.rest>>
         ELSE NodesOfAll([i \in DOMAIN typeNode.attributes |-> typeNode.attributes[i].value],
                         1, open)
              \o (IF typeNode.rest # NoNode THEN NodesOf(typeNode.rest, open) ELSE <<>>)
    [] OTHER -> <<>>

NodesOfAll(typeNodes, i, open) ==
  IF i > Len(typeNodes) THEN <<>>
  ELSE NodesOf(typeNodes[i], open) \o NodesOfAll(typeNodes, i + 1, open)

CountOf(nodes, Test(_)) == Cardinality({i \in DOMAIN nodes : Test(nodes[i])})

IsUnknown(typeNode) == typeNode.type = "unknown"

IsEmptyUnion(typeNode) == typeNode.type = "union" /\ Len(typeNode.members) = 0

StatsOfNodes(nodes) ==
  [allTypes |-> Len(nodes), unknownTypes |-> CountOf(nodes, IsUnknown),
   emptyUnions |-> CountOf(nodes, IsEmptyUnion)]

\* C20 (as stated): the statistics count every node of the tree exactly once:
\* allTypes is the number of nodes of every kind, unknownTypes the number of
\* unknown nodes, emptyUnions the number of unions without members, for every
\* tree, objects whose rest is unknown included.
C20_EveryNodeCountedOnce ==
  statPc = "returned" => statResult = StatsOfNodes(NodesOf(statNode, TRUE))

\* C20 (amended): the statistics count every node exactly once, except below
\* an object whose rest is unknown: such an object counts as two nodes, itself
\* and its unknown rest, and its attributes are not walked.
C20_EveryWalkedNodeCountedOnce ==
  statPc = "returned" => statResult = StatsOfNodes(NodesOf(statNode, FALSE))

\* the statistics of a tree that holds an object with attributes and an
\* unknown rest, next to an unknown leaf, have been returned
C20_Witness ==
  /\ statPc = "returned"
  /\ statNode = UnionNode(<<OpenNested, UnknownNode>>)
  /\ statResult = [allTypes |-> 4, unknownTypes |-> 2, emptyUnions |-> 0]

(***************************************************************************)
(* SpecCollect: collectObjectFingerprints walks a batch, one top-level     *)
(* TypeNode per step                                                       *)
(***************************************************************************)
MaxColBatch == 2

KEY_EMPTY == <<>>
KEY_CLASSES == <<"c", "l", "a", "s", "s", "e", "s">>

Grid == Obj(<<Attr(KEY_ITEMS, FALSE, ArrayNode(ArrayNode(PointN)))>>)
ItemsOfEither == Obj(<<Attr(KEY_ITEMS, FALSE, ArrayNode(UnionNode(<<PointN, PointS>>)))>>)
ClassesOfOuter == Obj(<<Attr(KEY_CLASSES, FALSE, ArrayNode(Outer))>>)
NamelessItems == Obj(<<Attr(KEY_EMPTY, FALSE, ArrayNode(PointN))>>)
NamelessItem == Obj(<<Attr(KEY_EMPTY, FALSE, PointS)>>)
Untagged == Obj(<<Attr(KEY_TYPE, FALSE, StrNode), Attr(KEY_X, FALSE, NumNode)>>)
UntypedStruct ==
  Obj(<<Attr(KEY_ITEM, FALSE, Struct), Attr(KEY_X, FALSE, ArrayNode(Typed)),
        Attr(KEY_Y, FALSE, Untagged)>>)

ColPool ==
  {PointN, TwoItems, Mixed, ArrayOfTyped, Grid, ItemsOfEither, ClassesOfOuter, RestHost,
   NamelessItems, NamelessItem, UntypedStruct}

InitCollect ==
  /\ FpIdle
  /\ RegIdle
  /\ GenIdle
  /\ MapIdle
  /\ MemoIdle
  /\ LowIdle
  /\ IdIdle
  /\ SingIdle
  /\ RunIdle
  /\ StatIdle
  /\ WatchIdle
  /\ SessIdle
  /\ colBatch \in UNION {[1..k -> ColPool] : k \in 1..MaxColBatch}
  /\ colResult = <<>>
  /\ colIdx = 0

\* one iteration of `for (const typeNode of typeNodes) walkTypeNode(typeNode, result)`
ColWalk ==
  /\ colIdx < Len(colBatch)
  /\ colResult' = walkTypeNode(colBatch[colIdx + 1], colResult, NoName)
  /\ colIdx' = colIdx + 1
  /\ UNCHANGED <<fpVars, regVars, genVars, mapVars, memoVars, lowVars, idVars, singVars,
                 runVars, statVars, watchVars, sessVars, colBatch>>

NextCollect == ColWalk

SpecCollect == InitCollect /\ [][NextCollect]_vars

(***************************************************************************)
(* Claims on the occurrence collection                                     *)
(***************************************************************************)

\* the hint an array hands to its element type: the hint singularized; with
\* `emptyIsNone`, an empty hint is handed on as no hint
HintThroughArray(hint, emptyIsNone) ==
  IF ~hint.has THEN NoName
  ELSE IF emptyIsNone /\ hint.str = <<>> THEN NoName
  ELSE SomeName(singularize(hint.str))

\* the object nodes visited below typeNode in visit order, each with the
\* parent key hint it is reached with
RECURSIVE Sightings(_, _, _)
RECURSIVE SightingsOfAll(_, _, _, _)
Sightings(typeNode, hint, emptyIsNone) ==
  CASE typeNode.type = "array" ->
         Sightings(typeNode.of, HintThroughArray(hint, emptyIsNone), emptyIsNone)
    [] typeNode.type = "union" ->
         SightingsOfAll(typeNode.members, [i \in DOMAIN typeNode.members |-> hint], 1,
                        emptyIsNone)
    [] typeNode.type = "object" ->
         <<[node |-> typeNode, hint |-> hint]>>
         \o SightingsOfAll([i \in DOMAIN typeNode.attributes |-> typeNode.attributes[i].value],
                           [i \in DOMAIN typeNode.attributes |->
                              SomeName(typeNode.attributes[i].key)], 1, emptyIsNone)
         \o (IF typeNode.rest # NoNode THEN Sightings(typeNode.rest, NoName, emptyIsNone)
             ELSE <<>>)
    [] OTHER -> <<>>

SightingsOfAll(typeNodes, hints, i, emptyIsNone) ==
  IF i > Len(typeNodes) THEN <<>>
  ELSE Sightings(typeNodes[i], hints[i], emptyIsNone)
       \o SightingsOfAll(typeNodes, hints, i + 1, emptyIsNone)

\* the sightings of the top-level nodes walked so far
WalkedSightings(emptyIsNone) ==
  SightingsOfAll(SubSeq(colBatch, 1, colIdx), [i \in 1..colIdx |-> NoName], 1, emptyIsNone)

SightingsOf(fp, sightings) ==
  SelectSeq(sightings, LAMBDA s : computeFingerprint(s.node) = fp)

\* C21: for each fingerprint, the count of its record equals the number of
\* object nodes with that fingerprint visited in the batch (top-level nodes,
\* attribute values, array elements, union members, rest nodes); during the
\* pass a count only ever increases, and the representative node and candidate
\* name of a record are those of its first sighting and never change.
C21_CountsAndFirstSighting ==
  /\ [](LET sightings == WalkedSightings(TRUE) IN
        /\ \A i, j \in DOMAIN colResult : colResult[i].fp = colResult[j].fp => i = j
        /\ \A k \in DOMAIN sightings :
             \E i \in DOMAIN colResult : colResult[i].fp = computeFingerprint(sightings[k].node)
        /\ \A i \in DOMAIN colResult :
             LET mine == SightingsOf(colResult[i].fp, sightings) IN
             /\ colResult[i].count = Len(mine)
             /\ Len(mine) >= 1
             /\ colResult[i].typeNode = mine[1].node)
  /\ [][/\ Len(colResult') >= Len(colResult)
        /\ \A i \in DOMAIN colResult :
             /\ colResult'[i].fp = colResult[i].fp
             /\ colResult'[i].count >= colResult[i].count
             /\ colResult'[i].typeNode = colResult[i].typeNode
             /\ colResult'[i].candidateName = colResult[i].candidateName]_vars

\* a record was sighted again, with another parent key, after the step that
\* created it
C21_Witness ==
  /\ colIdx = 2
  /\ colBatch = <<TwoItems, Grid>>
  /\ \E i \in DOMAIN colResult :
       /\ colResult[i].typeNode = PointN
       /\ colResult[i].count = 2

\* the candidate name the naming rule gives an object reached with a hint:
\* the literal of a non-optional string-literal `_type`, else the hint
NameOfSighting(s) ==
  LET attrs == s.node.attributes
      literal == {i \in DOMAIN attrs :
                    /\ attrs[i].key = KEY_TYPE
                    /\ ~attrs[i].optional
                    /\ attrs[i].value.type = "string"
                    /\ attrs[i].value.hasValue}
  IN IF literal # {} THEN SomeName(attrs[CHOOSE i \in literal : TRUE].value.sval)
     ELSE s.hint

CandidateNamesFollow(sightings) ==
  \A i \in DOMAIN colResult :
    LET mine == SightingsOf(colResult[i].fp, sightings) IN
    Len(mine) >= 1 => colResult[i].candidateName = NameOfSighting(mine[1])

\* C22 as stated: the candidate name of a record is the `_type` literal of
\* its first sighting when `_type` is a non-optional string literal, else the
\* parent key hint of that sighting (nearest enclosing attribute key,
\* singularized once per array wrapper crossed, unchanged through unions,
\* cleared below rest), else none.
C22_CandidateNameRule == CandidateNamesFollow(WalkedSightings(FALSE))

\* C22: as above, except that an empty-string hint does not survive an array
\* wrapper: the element type is walked with no hint.
C22_CandidateNameRuleEmptyKey == CandidateNamesFollow(WalkedSightings(TRUE))

\* both members of a union inside an array take the singularized key, and a
\* `_type` literal wins over the key of the array that holds the object
C22_Witness ==
  /\ colIdx = 2
  /\ colBatch = <<ItemsOfEither, UntypedStruct>>
  /\ \E i, j, k \in DOMAIN colResult :
       /\ colResult[i].typeNode = PointN /\ colResult[i].candidateName = SomeName(KEY_ITEM)
       /\ colResult[j].typeNode = PointS /\ colResult[j].candidateName = SomeName(KEY_ITEM)
       /\ colResult[k].typeNode = Untagged /\ colResult[k].candidateName = SomeName(KEY_Y)

(***************************************************************************)
(* SpecUnique: getUniqueIdentifierForName is asked for names that collide  *)
(* with the identifiers in use and with the reserved ones; the caller may  *)
(* add the identifier it got to the set between two lookups                *)
(***************************************************************************)
NAME_A == <<"a">>
NAME_A_2 == <<"a", "_", "2">>
NAME_ARRAY_OF == <<"a", "r", "r", "a", "y", "-", "o", "f">>
NAME_SANITY_QUERIES == <<"s", "a", "n", "i", "t", "y", "Q", "u", "e", "r", "i", "e", "s">>

UniqueNames == {NAME_A, <<"A">>, NAME_A_2, NAME_ARRAY_OF, ARRAY_OF, NAME_SANITY_QUERIES}

UsedPool ==
  {<<"A">>, <<"A", "_", "2">>, <<"A", "_", "3">>, ARRAY_OF \o <<"_", "2">>}

InitUnique ==
  /\ FpIdle
  /\ RegIdle
  /\ GenIdle
  /\ MapIdle
  /\ MemoIdle
  /\ LateIdle
  /\ LowIdle
  /\ SingIdle
  /\ RunIdle
  /\ StatIdle
  /\ idIdentifiers \in SUBSET UsedPool
  /\ idCalls = <<>>

\* getUniqueIdentifierForName(name, currentIdentifiers): the set is only read
UniqueLookup ==
  /\ Len(idCalls) < MaxIdCalls
  /\ \E name \in UniqueNames :
       idCalls' = Append(idCalls, [name |-> name,
                                   id |-> getUniqueIdentifierForName(name, idIdentifiers),
                                   identifiers |-> idIdentifiers])
  /\ UNCHANGED <<fpVars, regVars, genVars, mapVars, memoVars, lateVars, lowVars, singVars,
                 runVars, statVars, idIdentifiers>>

\* the caller's currentIdentifiers.add(id.name) for the identifier it got last
UniqueReserve ==
  /\ idCalls # <<>>
  /\ idCalls[Len(idCalls)].id \notin idIdentifiers
  /\ idIdentifiers' = idIdentifiers \cup {idCalls[Len(idCalls)].id}
  /\ UNCHANGED <<fpVars, regVars, genVars, mapVars, memoVars, lateVars, lowVars, singVars,
                 runVars, statVars, idCalls>>

NextUnique == UniqueLookup \/ UniqueReserve

SpecUnique == InitUnique /\ [][NextUnique]_vars

Taken(identifiers) == identifiers \cup RESERVED_IDENTIFIERS

Numbered(n, k) == n \o <<"_">> \o NumToStr(k)

\* C23: getUniqueIdentifierForName(desired, S) returns the normalized name N
\* when N is neither in S nor reserved, and otherwise N_k for the smallest
\* k >= 2 such that N_k is neither in S nor reserved; the lookup leaves S
\* unchanged, and the same name with the same S gives the same identifier.
C23_SmallestFreeSuffix ==
  /\ [](\A i \in DOMAIN idCalls :
          LET n == normalizeIdentifier(idCalls[i].name)
              taken == Taken(idCalls[i].identifiers)
          IN /\ idCalls[i].id \notin taken
             /\ n \notin taken => idCalls[i].id = n
             /\ n \in taken =>
                  \E k \in 2..(Cardinality(taken) + 2) :
                    /\ idCalls[i].id = Numbered(n, k)
                    /\ \A j \in 2..(k - 1) : Numbered(n, j) \in taken)
  /\ [](\A i, j \in DOMAIN idCalls :
          (idCalls[i].name = idCalls[j].name /\ idCalls[i].identifiers = idCalls[j].identifiers)
            => idCalls[i].id = idCalls[j].id)
  /\ [][Len(idCalls') > Len(idCalls) => idIdentifiers' = idIdentifiers]_vars

\* a reserved name takes the suffix after the one in use, and a taken name
\* skips two used suffixes
C23_Witness ==
  /\ Len(idCalls) = 2
  /\ idCalls[1].name = NAME_ARRAY_OF
  /\ idCalls[1].identifiers = UsedPool
  /\ idCalls[1].id = ARRAY_OF \o <<"_", "3">>
  /\ idCalls[2].name = NAME_A
  /\ idCalls[2].id = <<"A", "_", "4">>

(***************************************************************************)
(* Claims on the order of the declarations inside a section               *)
(***************************************************************************)
DeclsOf(section) == SelectSeq(program, LAMBDA d : d.section = section)

\* the suffixes a numbered identifier of the program can carry
Numberings == 2..(Len(program) + 1)

\* id is base or base_k
IsNumberingOf(id, base) == id = base \/ \E k \in Numberings : id = Numbered(base, k)

\* the k of base_k, 1 for the bare name
NumberOf(id, base) ==
  IF id = base THEN 1 ELSE CHOOSE k \in Numberings : id = Numbered(base, k)

\* in a sequence of identifiers, two numberings of one base are numbered in
\* the order they stand in
NumberedInOrder(ids, bases) ==
  \A i, j \in DOMAIN ids :
    (i < j /\ bases[i] = bases[j]) => NumberOf(ids[i], bases[i]) < NumberOf(ids[j], bases[j])

\* the queries of the source that evaluate, module by module
EncounteredQueries == SucceedingQueries(FlatQueries(options.queries))

\* position of the first sighting of fp in the collection walk
FirstSeen(fp, sightings) ==
  CHOOSE k \in DOMAIN sightings :
    /\ computeFingerprint(sightings[k].node) = fp
    /\ \A m \in 1..(k - 1) : computeFingerprint(sightings[m].node) # fp

\* C24: inside the output sections, schema declarations stand in schema
\* order, query result declarations in the order the queries are encountered
\* (module order, then order inside the module), and the shared type
\* declarations, with their _2, _3 numbering, in the order in which each
\* fingerprint is first seen in the collection walk, a parent object before
\* the objects nested in it.
C24_OrderInsideSections ==
  /\ program # <<>> =>
       LET decls == DeclsOf("schema") IN
       /\ Len(decls) = Len(options.schema)
       /\ \A i \in DOMAIN decls :
            IsNumberingOf(decls[i].id, normalizeIdentifier(options.schema[i].name))
  /\ pc \in {"map", "done", "rejectedMap"} =>
       LET decls == DeclsOf("query")
           bases == [i \in DOMAIN EncounteredQueries |->
                       normalizeIdentifier(resultSuffix(EncounteredQueries[i].variable))]
       IN  /\ Len(decls) = Len(EncounteredQueries)
           /\ \A i \in DOMAIN decls : IsNumberingOf(decls[i].id, bases[i])
           /\ NumberedInOrder([i \in DOMAIN decls |-> decls[i].id], bases)
  /\ pc \in {"lower", "map", "done", "rejectedMap"} =>
       LET decls == DeclsOf("extracted")
           nodes == TypeNodesOf(EncounteredQueries)
           sightings == SightingsOfAll(nodes, [i \in DOMAIN nodes |-> NoName], 1, TRUE)
           bases == [i \in DOMAIN decls |->
                       normalizeIdentifier(
                         inlinePrefix(NameOfSighting(sightings[FirstSeen(decls[i].fp,
                                                                         sightings)])))]
       IN  /\ \A i \in DOMAIN decls :
                /\ \E k \in DOMAIN sightings : computeFingerprint(sightings[k].node) = decls[i].fp
                /\ IsNumberingOf(decls[i].id, bases[i])
           /\ \A i, j \in DOMAIN decls :
                i < j => FirstSeen(decls[i].fp, sightings) < FirstSeen(decls[j].fp, sightings)
           /\ NumberedInOrder([i \in DOMAIN decls |-> decls[i].id], bases)

\* the same query in two modules: the parent shape is declared before the two
\* shapes nested in it, which are numbered InlineItem and InlineItem_2 in the
\* order of their attributes, and the second query result is numbered _2
C24_Witness ==
  /\ pc = "done"
  /\ options.schema = SchemaFooBar
  /\ options.queries = <<ModuleMixed, ModuleMixed>>
  /\ LET decls == DeclsOf("extracted") IN
     /\ Len(decls) = 3
     /\ decls[1].fp = computeFingerprint(TwoItems)
     /\ decls[2].fp = computeFingerprint(PointN) /\ decls[2].id = INLINE_ITEM
     /\ decls[3].fp = computeFingerprint(PointS)
     /\ decls[3].id = INLINE_ITEM \o <<"_", "2">>
  /\ LET decls == DeclsOf("query") IN
     /\ Len(decls) = 2
     /\ decls[2].id = QUERY_FOO_RESULT_N(2)

(***************************************************************************)
(* Claims on the state and the promises of the runner                      *)
(***************************************************************************)

\* control is back at the event loop: no continuation of a settled onGenerate
\* promise is waiting to run
AtEventLoop ==
  \A i \in DOMAIN runActivations : runActivations[i] \in {"awaiting", "returned"}

\* C25: whenever control can return to the event loop, pendingGeneration
\* implies isGenerating, isGenerating is true exactly while an onGenerate
\* invocation is in flight, and once every generation has finished with no
\* request outstanding both flags are false.
C25_StateInvariant ==
  /\ runState.pendingGeneration => runState.isGenerating
  /\ AtEventLoop => (runState.isGenerating <=> InFlight # {})
  /\ (AtEventLoop /\ InFlight = {}) =>
       runState = [isGenerating |-> FALSE, pendingGeneration |-> FALSE]

\* a generation has finished, its successor has finished too, and a request
\* is pending on the generation in flight
C25_Witness ==
  /\ AtEventLoop
  /\ runFinished = 2
  /\ runState.pendingGeneration
  /\ runState.isGenerating
  /\ Cardinality(InFlight) = 1

\* C26: when onGenerate rejects, the rejection is reported to the caller of
\* the runGeneration call that started the failed generation: the promise of
\* that call rejects with the error of that generation.
C26_RejectionReported ==
  \A i \in DOMAIN runPromises :
    (runPromises[i].own # 0 /\ runPromises[i].outcome # "pending") =>
      /\ runPromises[i].outcome = "rejected"
      /\ runPromises[i].error = runPromises[i].own

\* C26, the other parts: after a rejected onGenerate the finally block clears
\* isGenerating unless it starts the queued generation, a generation
\* requested meanwhile is started by that finally block, and a call made
\* after a failure finds the runner idle and starts a generation.
C26_RunnerNotWedged ==
  [][/\ (runFinished' # runFinished /\ runQueued >= 1) => StartedNow = 1
     /\ (runFinished' # runFinished /\ runQueued = 0 /\ ~runState.pendingGeneration) =>
          ~runState'.isGenerating
     /\ (runCalls' # runCalls /\ AtEventLoop /\ InFlight = {}) => StartedNow = 1]_vars

(***************************************************************************)
(* Claims on the end of the evaluatedModules stream                        *)
(***************************************************************************)
EndsOfStream == {i \in DOMAIN events : events[i].kind = "evaluatedModulesEnd"}

\* C27: in every generateTypes run with a reporter that gets past the
\* lowering, the evaluatedModules stream is ended exactly once, after the last
\* module item and before the query-types event, whether the query source is
\* absent, empty or non-empty.
C27_StreamEndedOnce ==
  (options.reporter /\ pc \in {"map", "done", "rejectedMap"}) =>
    /\ Cardinality(EndsOfStream) = 1
    /\ \A e \in EndsOfStream :
         \A i \in DOMAIN events :
           /\ events[i].kind = "evaluatedModule" => i < e
           /\ events[i].kind = "generatedQueryTypes" => e < i

(***************************************************************************)
(* Claim on repeated singularization                                       *)
(***************************************************************************)

\* C28: singularize is idempotent: for every word w,
\* singularize(singularize(w)) = singularize(w), so a key that crosses
\* several array wrappers gets the hint of a key that crosses one.
C28_Idempotent ==
  singPc = "returned" => singularize(singResult) = singResult

\* a plural in -sses: the result ends in -ss, which the last rule leaves alone
C28_Witness ==
  /\ singPc = "returned"
  /\ singName = <<"a", "s", "s", "e", "s">>
  /\ singResult = <<"a", "s", "s">>

(***************************************************************************)
(* SpecWatch: runTypegenWatcher (typegenWatch.ts).  The runner's           *)
(* onGenerate is the watcher's callback, which awaits runTypegenGenerate   *)
(* inside try/catch; debouncedGenerate calls runGeneration.                *)
(***************************************************************************)
InitWatch ==
  /\ FpIdle
  /\ RegIdle
  /\ GenIdle
  /\ MapIdle
  /\ MemoIdle
  /\ ColIdle
  /\ SessIdle
  /\ LowIdle
  /\ IdIdle
  /\ SingIdle
  /\ StatIdle
  /\ runState = [isGenerating |-> FALSE, pendingGeneration |-> FALSE]
  /\ runActivations = <<>>
  /\ runCalls = 0
  /\ runStarted = 0
  /\ runQueued = 0
  /\ runFinished = 0
  /\ runPromises = <<>>
  /\ watchStats = [failedCount |-> 0, successfulCount |-> 0]

\* variant of the callback without the catch clause: [stats, settles]
CallbackWithoutCatch(stats, generated) ==
  IF generated = "resolved"
  THEN [stats |-> [stats EXCEPT !.successfulCount = @ + 1], settles |-> "fulfilled"]
  ELSE [stats |-> stats, settles |-> "rejected"]

\* the callback after runTypegenGenerate has settled: [stats, settles]
\*   try { ...; stats.successfulDurations.push(duration) }
\*   catch (err) { ...; stats.failedCount++ }
GenerationCallback(stats, generated) ==
  IF generated = "resolved"
  THEN [stats |-> [stats EXCEPT !.successfulCount = @ + 1], settles |-> "fulfilled"]
  ELSE [stats |-> [stats EXCEPT !.failedCount = @ + 1], settles |-> "fulfilled"]

\* runTypegenGenerate resolves or rejects and the callback runs to its end
WatchGenerationSettles ==
  /\ \E i \in DOMAIN runActivations :
       /\ runActivations[i] = "awaiting"
       /\ \E generated \in {"resolved", "rejected"} :
            LET done == GenerationCallback(watchStats, generated) IN
            /\ watchStats' = done.stats
            /\ runActivations' = [runActivations EXCEPT ![i] = done.settles]
            /\ runPromises' = IF done.settles = "rejected"
                              THEN [runPromises EXCEPT ![i].own = i]
                              ELSE runPromises
  /\ UNCHANGED <<fpVars, regVars, genVars, mapVars, memoVars, colVars, sessVars, lowVars,
                 idVars, singVars, statVars, runState, runCalls, runStarted, runQueued,
                 runFinished>>

NextWatch == RunGenerationCalled \/ WatchGenerationSettles \/ RunFinally

SpecWatch == InitWatch /\ [][NextWatch]_vars

\* getStats(): generationFailedCount and generationSuccessfulCount
getStats == [generationFailedCount |-> watchStats.failedCount,
             generationSuccessfulCount |-> watchStats.successfulCount]

CompletedGenerations == {i \in DOMAIN runActivations : runActivations[i] # "awaiting"}

\* C29: in watch mode the runner's onGenerate never rejects; every completed
\* generation increments exactly one of generationFailedCount and
\* generationSuccessfulCount, their sum is the number of completed
\* generations, and after a failed generation a trigger that finds the runner
\* idle still starts a generation.
C29_WatcherSurvivesFailures ==
  /\ [](/\ \A i \in DOMAIN runActivations : runActivations[i] # "rejected"
        /\ \A i \in DOMAIN runPromises : runPromises[i].outcome # "rejected"
        /\ getStats.generationFailedCount + getStats.generationSuccessfulCount
             = Cardinality(CompletedGenerations))
  /\ [][/\ (CompletedGenerations' # CompletedGenerations) =>
             \/ /\ watchStats'.failedCount = watchStats.failedCount + 1
                /\ watchStats'.successfulCount = watchStats.successfulCount
             \/ /\ watchStats'.failedCount = watchStats.failedCount
                /\ watchStats'.successfulCount = watchStats.successfulCount + 1
        /\ (CompletedGenerations' = CompletedGenerations) => watchStats' = watchStats
        /\ (runCalls' # runCalls /\ AtEventLoop /\ InFlight = {}) => StartedNow = 1
        /\ (runFinished' # runFinished /\ runQueued >= 1) => StartedNow = 1]_vars

\* two generations failed, one succeeded, and a later trigger has started a
\* fourth one
C29_Witness ==
  /\ getStats.generationFailedCount = 2
  /\ getStats.generationSuccessfulCount = 1
  /\ runStarted = 4
  /\ Cardinality(InFlight) = 1

(***************************************************************************)
(* SpecSession: several generateTypes calls, one after the other, on one   *)
(* TypeGenerator.  getSchemaTypeGenerator is memoized on options.schema,   *)
(* so a call may lower with the SchemaTypeGenerator an earlier call left   *)
(* behind.                                                                 *)
(***************************************************************************)
MaxSessCalls == 3

SessSchemas == {SchemaFooBar, SchemaArrays}

SessQueries == {<<>>, <<ModuleTags>>, <<ModuleDedup>>}

SessOptions ==
  {[schema |-> schema, hasQueries |-> queries # <<>>, queries |-> queries,
    overloadClientMethods |-> TRUE, reporter |-> FALSE] :
     schema \in SessSchemas, queries \in SessQueries}

InitSession ==
  /\ FpIdle
  /\ RegIdle
  /\ GenIdle
  /\ MapIdle
  /\ LowIdle
  /\ IdIdle
  /\ SingIdle
  /\ RunIdle
  /\ StatIdle
  /\ ColIdle
  /\ WatchIdle
  /\ memoize \in {"lruMemoize", "weakMapMemoize"}
  /\ memoHeap = 0
  /\ schemaTypeGeneratorCache = {}
  /\ schemaTypeDeclarationsCache = {}
  /\ memoCalls = <<>>
  /\ sessGenerators = {}
  /\ sessCalls = <<>>

\* variant of the selector that constructs a SchemaTypeGenerator on every call
AlwaysNewSchemaTypeGenerator(cache, schema) == NewSchemaTypeGenerator(schema)

\* this.getSchemaTypeGenerator(options): the memoized instance, in the state
\* the last call that used it left it in, or a new one
getSchemaTypeGenerator(cache, schema) ==
  IF CacheHit(cache, schema) THEN CachedValue(cache, schema)
  ELSE NewSchemaTypeGenerator(schema)

\* generateTypes(options) up to its first await, on the session's TypeGenerator
SessCall ==
  /\ pc = "idle"
  /\ Len(sessCalls) < MaxSessCalls
  /\ \E opts \in SessOptions :
       LET schemaTypeGenerator == getSchemaTypeGenerator(sessGenerators, opts.schema) IN
       /\ options' = opts
       /\ stg' = schemaTypeGenerator
       /\ sessGenerators' = IF CacheHit(sessGenerators, opts.schema) THEN sessGenerators
                            ELSE CacheAfterMiss(sessGenerators, opts.schema,
                                                schemaTypeGenerator)
       /\ program' = [i \in DOMAIN schemaTypeGenerator.identifiers |->
                        Decl("schema", schemaTypeGenerator.identifiers[i])]
                     \o <<Decl("allSchemaTypes", ALL_SANITY_SCHEMA_TYPES),
                          Decl("referenceSymbol", INTERNAL_REFERENCE_SYMBOL)>>
  /\ pc' = "collect"
  /\ srcPos' = 0
  /\ srcState' = "open"
  /\ collectedModules' = <<>>
  /\ allTypeNodes' = <<>>
  /\ currentIdentifiers' = {}
  /\ evaluatedModules' = <<>>
  /\ UNCHANGED <<fpVars, regVars, mapVars, memoVars, lowVars, idVars, singVars, runVars,
                 statVars, colVars, watchVars, events, rejection, sessCalls>>

\* generateTypes returns {ast, code}; the SchemaTypeGenerator stays in the
\* selector's cache as the call leaves it
SessReturn ==
  /\ pc = "done"
  /\ Len(sessCalls) < MaxSessCalls
  /\ sessCalls' = Append(sessCalls, [options |-> options, program |-> program])
  /\ sessGenerators' = {IF e.key = options.schema THEN [key |-> e.key, value |-> stg] ELSE e :
                          e \in sessGenerators}
  /\ pc' = "idle"
  /\ UNCHANGED <<fpVars, regVars, mapVars, memoVars, lowVars, idVars, singVars, runVars,
                 statVars, colVars, watchVars, options, srcPos, srcState, collectedModules,
                 allTypeNodes, currentIdentifiers, stg, program, evaluatedModules, events,
                 rejection>>

NextSession ==
  \/ SessCall
  \/ CollectModule
  \/ CollectDone
  \/ BuildRegistry
  \/ GenerateModule
  \/ FinishLowering
  \/ QueryMap
  \/ SessReturn

SpecSession == InitSession /\ [][NextSession]_vars

==============================================================================
